---- MODULE Spec2Model ----
(***************************************************************************)
(* The request pipeline of the edgecom time-series service: the unary      *)
(* interceptor chain (request id, rate limiter, logging, metrics, cache)   *)
(* around TimeSeriesService.QueryTimeSeries and its RequestValidator.      *)
(*                                                                         *)
(* Instants (time.Time) are whole days relative to the Unix epoch; the     *)
(* limiter's clock counts ticks of 1/Rate seconds, one token per tick.     *)
(***************************************************************************)
EXTENDS Integers, Sequences, FiniteSets, TLC

(* ------------------------------ bounds --------------------------------- *)

\* Requests the server handles at the same time (one goroutine each).
MaxInFlight == 1

\* Capacity given to NewCache.
CacheSize == 2

\* Ticks the limiter's clock may advance.
MaxClock == 2

\* Calls the metrics stage counts before the server takes no new request.
MaxRequests == 11

\* Days after the epoch the sample instants of a validated range start at.
MaxDay == 2

\* The instants time.Now() can give the ingestion.
MaxNow == 2

\* The firings of the scheduler.
MaxFirings == 2

\* The batch inserts made one after the other.
MaxBatches == 2

\* The jobs the cron launches in the life of one process.
MaxTicks == 1

\* The calls made one after the other of one Cache.
MaxUses == 4

\* The calls that go through the cache stage side by side.
MaxConcurrent == 2

\* The calls of SetupServer made in one process.
MaxSetups == 2

\* The instants T an aggregation query ends at, counted in steps of 5 minutes
\* from a full hour.
MaxQueryNow == 12

(* -------------------------- program constants -------------------------- *)

\* rate.NewLimiter(5, 10): tokens per second and burst.
Rate == 5
Burst == 10

\* The limiter's clock ticks per second: one token a tick.
TicksPerSecond == Rate

\* const maxTimeRange = 2 * 365 * 24 * time.Hour, in days.
maxTimeRange == 2 * 365

\* time.Time{} (January 1, year 1) in days relative to the Unix epoch.
ZeroTime == 0 - 719162

\* time.Unix(0, 0).
UnixEpoch == 0

\* The largest time.Duration (2^63 - 1 ns), in whole days; Sub saturates there.
MaxDuration == 106751

\* An instant further than MaxDuration from the epoch.
FarTime == 2 * MaxDuration

QueryMethod == "/timeseries.TimeSeriesService/QueryTimeSeries"

\* "@every 5m", in seconds.
Interval == 5 * 60

\* context.WithTimeout(s.ctx, 2*time.Minute) of a firing, in seconds.
FiringTimeout == 2 * 60

\* context.WithTimeout(ctx, 30*time.Second) of FetchData, in seconds.
FetchTimeout == 30

\* The seconds between two instants of the cron's clock.
TimeStep == 5

(* ------------------------------- values -------------------------------- *)

\* A nil *timestamppb.Timestamp.
NilTimestamp == [isNil |-> TRUE, seconds |-> 0]

\* timestamppb.New(t)
TimestampNew(t) == [isNil |-> FALSE, seconds |-> t]

\* (*Timestamp).AsTime(): a nil receiver reads as seconds 0, the Unix epoch.
AsTime(ts) == IF ts.isNil THEN UnixEpoch ELSE ts.seconds

\* A nil error.
NoError == [code |-> "OK", msg |-> ""]

\* fmt.Errorf(msg)
Errorf(m) == [code |-> "error", msg |-> m]

\* status.Errorf(code, msg)
StatusErrorf(c, m) == [code |-> c, msg |-> m]

\* A nil response.
NilResponse == [isNil |-> TRUE, data |-> <<>>]

(* ------------------------- RequestValidator ---------------------------- *)

\* The windows with a two-hour window among them.
validWindows_twoHours == {"1m", "5m", "1h", "2h", "1d"}

validWindows == {"1m", "5m", "1h", "1d"}

validAggregations == {"MIN", "MAX", "AVG", "SUM"}

\* time.Time.IsZero
IsZero(t) == t = ZeroTime

\* time.Time.Equal
TimeEqual(t, u) == t = u

\* time.Time.After
After(t, u) == t > u

\* Sub that wraps around past the largest Duration instead of saturating.
Sub_wrap(t, u) ==
    LET d == t - u
    IN  IF d > MaxDuration THEN d - 2 * MaxDuration - 1
        ELSE IF d < 0 - MaxDuration THEN d + 2 * MaxDuration + 1
        ELSE d

\* time.Time.Sub: the difference, saturated at the largest and smallest Duration.
Sub(t, u) ==
    LET d == t - u
    IN  IF d > MaxDuration THEN MaxDuration
        ELSE IF d < 0 - MaxDuration THEN 0 - MaxDuration
        ELSE d

\* Validate without the test for the Unix epoch: only the zero time is unset.
Validate_zeroOnly(start, end, window, aggregation) ==
    IF IsZero(start) \/ IsZero(end)
    THEN Errorf("missing timestamp")
    ELSE IF After(start, end)
    THEN Errorf("start time must be before end time")
    ELSE IF Sub(end, start) > maxTimeRange
    THEN Errorf("time range exceeds maximum allowed")
    ELSE IF window \notin validWindows
    THEN Errorf("invalid window: " \o window)
    ELSE IF aggregation = ""
    THEN Errorf("invalid aggregation")
    ELSE IF aggregation \notin validAggregations
    THEN Errorf("invalid aggregation: " \o aggregation)
    ELSE NoError

\* Validate without the separate message for an empty aggregation.
Validate_aggregationColon(start, end, window, aggregation) ==
    IF IsZero(start) \/ IsZero(end) \/ TimeEqual(start, UnixEpoch) \/ TimeEqual(end, UnixEpoch)
    THEN Errorf("missing timestamp")
    ELSE IF After(start, end)
    THEN Errorf("start time must be before end time")
    ELSE IF Sub(end, start) > maxTimeRange
    THEN Errorf("time range exceeds maximum allowed")
    ELSE IF window = ""
    THEN Errorf("invalid window: ")
    ELSE IF window \notin validWindows
    THEN Errorf("invalid window: " \o window)
    ELSE IF aggregation \notin validAggregations
    THEN Errorf("invalid aggregation: " \o aggregation)
    ELSE NoError

\* RequestValidator.Validate: the first failing rule's error, or nil.
Validate(start, end, window, aggregation) ==
    IF IsZero(start) \/ IsZero(end) \/ TimeEqual(start, UnixEpoch) \/ TimeEqual(end, UnixEpoch)
    THEN Errorf("missing timestamp")
    ELSE IF After(start, end)
    THEN Errorf("start time must be before end time")
    ELSE IF Sub(end, start) > maxTimeRange
    THEN Errorf("time range exceeds maximum allowed")
    ELSE IF window = ""
    THEN Errorf("invalid window: ")
    ELSE IF window \notin validWindows
    THEN Errorf("invalid window: " \o window)
    ELSE IF aggregation = ""
    THEN Errorf("invalid aggregation")
    ELSE IF aggregation \notin validAggregations
    THEN Errorf("invalid aggregation: " \o aggregation)
    ELSE NoError

(* ------------------------------ limiter -------------------------------- *)

Min(a, b) == IF a < b THEN a ELSE b

\* rate.NewLimiter(5, 10): a full bucket.
NewLimiter == [tokens |-> Burst, last |-> 0]

\* Limiter.advance: the tokens at instant t, refilled at Rate and capped at Burst.
Advance(lim, t) ==
    Min(Burst, lim.tokens + ((t - lim.last) * Rate) \div TicksPerSecond)

\* The ticks in Burst / Rate seconds: the time an empty bucket takes to fill.
IdleTicks == (Burst * TicksPerSecond) \div Rate

\* Allow that takes no token for a call it admits.
Allow_free(lim, t) ==
    LET tokens == Advance(lim, t)
    IN  IF tokens >= 1
        THEN [ok |-> TRUE, lim |-> [tokens |-> tokens, last |-> t]]
        ELSE [ok |-> FALSE, lim |-> lim]

\* Limiter.Allow at instant t: whether one token is there, and the limiter after.
Allow(lim, t) ==
    LET tokens == Advance(lim, t)
    IN  IF tokens >= 1
        THEN [ok |-> TRUE, lim |-> [tokens |-> tokens - 1, last |-> t]]
        ELSE [ok |-> FALSE, lim |-> lim]

(* ------------------------------- cache --------------------------------- *)

\* json.Marshal of a Timestamp: an object with the seconds, omitted when zero.
JsonTimestamp(ts) ==
    "{" \o (IF ts.seconds = 0 THEN "" ELSE "\"seconds\":" \o ToString(ts.seconds))
        \o "}"

\* The members of the JSON object of a request: the fields in declaration
\* order, a nil timestamp and an empty string omitted.
JsonFields(req) ==
    (IF req.Start.isNil THEN <<>> ELSE <<"\"start\":" \o JsonTimestamp(req.Start)>>)
    \o (IF req.End.isNil THEN <<>> ELSE <<"\"end\":" \o JsonTimestamp(req.End)>>)
    \o (IF req.Window = "" THEN <<>>
        ELSE <<"\"window\":\"" \o req.Window \o "\"">>)
    \o (IF req.Aggregation = "" THEN <<>>
        ELSE <<"\"aggregation\":\"" \o req.Aggregation \o "\"">>)

RECURSIVE JoinComma(_)
\* The strings of a sequence with commas between them.
JoinComma(fields) ==
    IF fields = <<>> THEN ""
    ELSE IF Len(fields) = 1 THEN fields[1]
    ELSE fields[1] \o "," \o JoinComma(Tail(fields))

\* json.Marshal of a request.
JsonMarshal(req) == "{" \o JoinComma(JsonFields(req)) \o "}"

\* generateCacheKey that leaves the method out of the key.
generateCacheKey_methodless(method, req) == JsonMarshal(req)

\* generateCacheKey: "<method>:<json of the request>".
generateCacheKey(method, req) == method \o ":" \o JsonMarshal(req)

\* The index of key in an lru.Cache (most recently used first), 0 when absent.
CacheIndex(c, key) ==
    IF \E i \in 1..Len(c) : c[i].key = key
    THEN CHOOSE i \in 1..Len(c) : c[i].key = key
    ELSE 0

\* The keys an lru.Cache holds.
CacheKeys(c) == {c[i].key : i \in 1..Len(c)}

\* Without its i-th entry.
RemoveAt(c, i) == SubSeq(c, 1, i - 1) \o SubSeq(c, i + 1, Len(c))

\* Get that leaves a hit where it is.
CacheGet_inPlace(c, key) ==
    LET i == CacheIndex(c, key)
    IN  IF i = 0
        THEN [ok |-> FALSE, value |-> NilResponse, cache |-> c]
        ELSE [ok |-> TRUE, value |-> c[i].value, cache |-> c]

\* Get that finds no key.
CacheGet_miss(c, key) == [ok |-> FALSE, value |-> NilResponse, cache |-> c]

\* lru.Cache.Get: the value and whether it was there; a hit moves the entry to the front.
CacheGet(c, key) ==
    LET i == CacheIndex(c, key)
    IN  IF i = 0
        THEN [ok |-> FALSE, value |-> NilResponse, cache |-> c]
        ELSE [ok |-> TRUE, value |-> c[i].value, cache |-> <<c[i]>> \o RemoveAt(c, i)]

\* Add that never makes an entry leave.
CacheAdd_unbounded(c, key, value) ==
    LET i == CacheIndex(c, key)
        e == [key |-> key, value |-> value]
    IN  IF i # 0
        THEN <<e>> \o RemoveAt(c, i)
        ELSE <<e>> \o c

\* lru.Cache.Add: an existing key is updated and moved to the front; a new one is
\* put at the front and the least recently used entry leaves when over capacity.
CacheAdd(c, key, value) ==
    LET i == CacheIndex(c, key)
        e == [key |-> key, value |-> value]
    IN  IF i # 0
        THEN <<e>> \o RemoveAt(c, i)
        ELSE IF Len(c) + 1 > CacheSize
        THEN <<e>> \o SubSeq(c, 1, Len(c) - 1)
        ELSE <<e>> \o c

(* ------------------------------- store --------------------------------- *)

\* A models.TimeSeriesData row.
Row(t, v) == [Time |-> t, Value |-> v]

\* What the database can answer a well-formed aggregation query with: the rows of
\* the buckets it finds, ascending by bucket.
StoreRows == {<<>>, <<Row(1, 100), Row(2, 200)>>}

\* A failure of the database connection or of the query.
StoreError == Errorf("sql: database is closed")

\* PostgresRepo.Query / QueryTimeSeriesData: the outcomes of one query.
RepoQuery(start, end, window, aggregation) ==
    IF aggregation \notin {"MIN", "MAX", "AVG", "SUM"}
    THEN {[err |-> Errorf("invalid aggregation type: " \o aggregation), rows |-> <<>>]}
    ELSE {[err |-> StoreError, rows |-> <<>>]}
         \cup {[err |-> NoError, rows |-> rows] : rows \in StoreRows}

\* The width in minutes of the bucket time_bucket makes of a window.
WindowMinutes(window) ==
    CASE window = "1m" -> 1
      [] window = "5m" -> 5
      [] window = "1h" -> 60
      [] window = "1d" -> 24 * 60

\* time_bucket(window, t): the start of the bucket t falls in, the buckets
\* laid out from an origin that is a midnight.
time_bucket(window, t) == (t \div WindowMinutes(window)) * WindowMinutes(window)

\* time BETWEEN start AND end.
Between(t, start, end) == start <= t /\ t <= end

RECURSIVE SumOf(_)
SumOf(values) == IF values = <<>> THEN 0 ELSE Head(values) + SumOf(Tail(values))

RECURSIVE MinOf(_)
MinOf(values) ==
    IF Len(values) = 1 THEN Head(values)
    ELSE IF Head(values) <= MinOf(Tail(values)) THEN Head(values)
    ELSE MinOf(Tail(values))

RECURSIVE MaxOf(_)
MaxOf(values) ==
    IF Len(values) = 1 THEN Head(values)
    ELSE IF Head(values) >= MaxOf(Tail(values)) THEN Head(values)
    ELSE MaxOf(Tail(values))

RECURSIVE GCD(_, _)
GCD(a, b) == IF b = 0 THEN a ELSE GCD(b, a % b)

\* The quotient num / den of two naturals, kept exact: in lowest terms.
Quotient(num, den) ==
    [num |-> num \div GCD(num, den), den |-> den \div GCD(num, den)]

\* MIN, MAX, AVG and SUM of a group's values.
Aggregate(aggregation, values) ==
    CASE aggregation = "MIN" -> MinOf(values)
      [] aggregation = "MAX" -> MaxOf(values)
      [] aggregation = "AVG" -> Quotient(SumOf(values), Len(values))
      [] aggregation = "SUM" -> SumOf(values)

\* The values of the rows of one bucket.
ValuesOf(rows, window, bucket) ==
    LET in == SelectSeq(rows, LAMBDA r : time_bucket(window, r.Time) = bucket)
    IN  [i \in 1..Len(in) |-> in[i].Value]

\* ORDER BY: the instants of a set, ascending.
RECURSIVE Ascending(_)
Ascending(instants) ==
    IF instants = {} THEN <<>>
    ELSE LET least == CHOOSE t \in instants : \A u \in instants : t <= u
         IN  <<least>> \o Ascending(instants \ {least})

\* The SELECT of QueryTimeSeriesData on the table: the rows of the range
\* grouped by their bucket, one row a bucket with the group's aggregate,
\* ordered by bucket.
SelectBuckets(table, start, end, window, aggregation) ==
    LET matching == SelectSeq(table, LAMBDA r : Between(r.Time, start, end))
        buckets == Ascending({time_bucket(window, matching[i].Time) :
                                 i \in 1..Len(matching)})
    IN  [i \in 1..Len(buckets) |->
            Row(buckets[i], Aggregate(aggregation,
                                      ValuesOf(matching, window, buckets[i])))]

\* PostgresRepo.Query / QueryTimeSeriesData on the table as it is: the error of
\* the connection or of the query, or the rows the SELECT gives.
RepoQueryOf(table, start, end, window, aggregation) ==
    IF aggregation \notin {"MIN", "MAX", "AVG", "SUM"}
    THEN {[err |-> Errorf("invalid aggregation type: " \o aggregation), rows |-> <<>>]}
    ELSE {[err |-> StoreError, rows |-> <<>>],
          [err |-> NoError,
           rows |-> SelectBuckets(table, start, end, window, aggregation)]}

(* ------------------------------ ingestion ----------------------------- *)

\* time.Hour, in the minutes the instants of the ingestion are counted in.
Hour == 60

\* time.Unix(sec, 0): the instant sec after the Unix epoch.
TimeUnix(sec) == UnixEpoch + sec

\* time.Time.Add
TimeAdd(t, d) == t + d

\* time.Time.AddDate(years, 0, 0), a year taken as 365 days.
AddDate(t, years) == t + years * 365 * 24 * Hour

\* A record of the upstream's payload: {"time": unix time, "value": number}.
APIRecord(t, v) == [time |-> t, value |-> v]

\* The "result" arrays the upstream answers with: none, one record, and two
\* records that are not in the order of their times.
Payloads == {<<>>, <<APIRecord(2, 20)>>, <<APIRecord(2, 20), APIRecord(1, 10)>>}

\* What http.DefaultClient.Do and the decoding of the body can come to: no
\* response at all, a response with a status other than 200, a 200 whose body
\* does not decode, a 200 with a payload.
UpstreamAnswers ==
    {[sent |-> FALSE, status |-> 0, decodable |-> FALSE, records |-> <<>>]}
    \cup {[sent |-> TRUE, status |-> c, decodable |-> TRUE, records |-> p] :
             c \in {204, 500}, p \in {<<>>, <<APIRecord(2, 20), APIRecord(1, 10)>>}}
    \cup {[sent |-> TRUE, status |-> 200, decodable |-> FALSE, records |-> <<>>]}
    \cup {[sent |-> TRUE, status |-> 200, decodable |-> TRUE, records |-> p] :
             p \in Payloads}

\* The rows of data that st does not hold yet, each once.
RECURSIVE NewRows(_, _)
NewRows(st, data) ==
    IF data = <<>> THEN <<>>
    ELSE IF \E i \in 1..Len(st) : st[i] = Head(data)
         THEN NewRows(st, Tail(data))
         ELSE <<Head(data)>> \o NewRows(st \o <<Head(data)>>, Tail(data))

\* The batch insert that skips the rows the table already holds.
BatchInsertTimeSeriesData_distinct(st, data) ==
    {[err |-> NoError, store |-> st \o NewRows(st, data)],
     [err |-> Errorf("failed to insert data point: " \o StoreError.msg),
      store |-> st],
     [err |-> Errorf("failed to commit transaction: " \o StoreError.msg),
      store |-> st]}

\* PostgresRepo.BatchInsertTimeSeriesData: all rows appended in one transaction,
\* or an error and, the transaction rolled back, the table as it was.
BatchInsertTimeSeriesData(st, data) ==
    {[err |-> NoError, store |-> st \o data],
     [err |-> Errorf("failed to insert data point: " \o StoreError.msg),
      store |-> st],
     [err |-> Errorf("failed to commit transaction: " \o StoreError.msg),
      store |-> st]}

\* The models.TimeSeriesData of each record, in the records' order.
DataPoints(records) ==
    [i \in 1..Len(records) |-> Row(TimeUnix(records[i].time), records[i].value)]

\* What a FetchData call comes to when nothing is inserted.
FetchNoInsert(st, answer, err) ==
    [err |-> err, store |-> st, answer |-> answer, inserts |-> <<>>]

\* FetchData that inserts whatever the upstream sent, whatever its status.
FetchDataReturns_anyStatus(st, start, end) ==
    UNION {
        IF ~a.sent
        THEN {FetchNoInsert(st, a, Errorf("error making API request: timeout"))}
        ELSE IF ~a.decodable
        THEN {FetchNoInsert(st, a, Errorf("failed to decode response: EOF"))}
        ELSE IF Len(a.records) = 0
        THEN {FetchNoInsert(st, a, NoError)}
        ELSE {[err |-> IF b.err = NoError THEN NoError
                       ELSE Errorf("failed to insert data points: " \o b.err.msg),
               store |-> b.store, answer |-> a,
               inserts |-> <<DataPoints(a.records)>>] :
                 b \in BatchInsertTimeSeriesData(st, DataPoints(a.records))}
        : a \in UpstreamAnswers}

\* SeriesFetcher.FetchData on the table st: for each answer of the upstream,
\* the error returned, the table afterwards and the batches handed to the
\* batch insert.
FetchDataReturns(st, start, end) ==
    UNION {
        IF ~a.sent
        THEN {FetchNoInsert(st, a, Errorf("error making API request: timeout"))}
        ELSE IF a.status # 200
        THEN {FetchNoInsert(st, a, Errorf("error status from API: got "
                                            \o ToString(a.status)))}
        ELSE IF ~a.decodable
        THEN {FetchNoInsert(st, a, Errorf("failed to decode response: EOF"))}
        ELSE IF Len(a.records) = 0
        THEN {FetchNoInsert(st, a, NoError)}
        ELSE {[err |-> IF b.err = NoError THEN NoError
                       ELSE Errorf("failed to insert data points: " \o b.err.msg),
               store |-> b.store, answer |-> a,
               inserts |-> <<DataPoints(a.records)>>] :
                 b \in BatchInsertTimeSeriesData(st, DataPoints(a.records))}
        : a \in UpstreamAnswers}

\* The FetchData call of `caller` for [start, end] that came to o.
FetchRecord(caller, start, end, o) ==
    [caller |-> caller, start |-> start, end |-> end,
     answer |-> o.answer, inserts |-> o.inserts, err |-> o.err]

(* --------------------------- QueryTimeSeries --------------------------- *)

\* The conversion that appends each point in front of the ones before it.
ToProto_reversed(rows) ==
    [i \in 1..Len(rows) |->
        [Time |-> TimestampNew(rows[Len(rows) + 1 - i].Time),
         Value |-> rows[Len(rows) + 1 - i].Value]]

\* The pb.TimeSeriesDataPoint of each row, in the rows' order.
ToProto(rows) ==
    [i \in 1..Len(rows) |->
        [Time |-> TimestampNew(rows[i].Time), Value |-> rows[i].Value]]

\* QueryTimeSeries that reports a validation failure as an Internal error with
\* a message of its own.
QueryTimeSeriesReturns_internal(req) ==
    LET start == AsTime(req.Start)
        end == AsTime(req.End)
        v == Validate(start, end, req.Window, req.Aggregation)
    IN  IF v # NoError
        THEN {[resp |-> NilResponse,
               err |-> StatusErrorf("Internal", "invalid request"),
               storeCalls |-> <<>>]}
        ELSE {[resp |-> IF q.err # NoError
                        THEN NilResponse
                        ELSE [isNil |-> FALSE, data |-> ToProto(q.rows)],
               err |-> IF q.err # NoError
                       THEN StatusErrorf("Internal", "query failed: " \o q.err.msg)
                       ELSE NoError,
               storeCalls |-> <<[start |-> start, end |-> end,
                                 window |-> req.Window,
                                 aggregation |-> req.Aggregation,
                                 err |-> q.err, rows |-> q.rows]>>] :
                 q \in RepoQuery(start, end, req.Window, req.Aggregation)}

\* TimeSeriesService.QueryTimeSeries: what it can return for req, and the
\* repository queries it made: validate, query the repository, convert.
QueryTimeSeriesReturns(req) ==
    LET start == AsTime(req.Start)
        end == AsTime(req.End)
        v == Validate(start, end, req.Window, req.Aggregation)
    IN  IF v # NoError
        THEN {[resp |-> NilResponse,
               err |-> StatusErrorf("InvalidArgument", v.msg),
               storeCalls |-> <<>>]}
        ELSE {[resp |-> IF q.err # NoError
                        THEN NilResponse
                        ELSE [isNil |-> FALSE, data |-> ToProto(q.rows)],
               err |-> IF q.err # NoError
                       THEN StatusErrorf("Internal", "query failed: " \o q.err.msg)
                       ELSE NoError,
               storeCalls |-> <<[start |-> start, end |-> end,
                                 window |-> req.Window,
                                 aggregation |-> req.Aggregation,
                                 err |-> q.err, rows |-> q.rows]>>] :
                 q \in RepoQuery(start, end, req.Window, req.Aggregation)}

\* TimeSeriesService.QueryTimeSeries with the table behind its repository:
\* what it can return for req, and the repository queries it made.
QueryTimeSeriesOf(table, req) ==
    LET start == AsTime(req.Start)
        end == AsTime(req.End)
        v == Validate(start, end, req.Window, req.Aggregation)
    IN  IF v # NoError
        THEN {[resp |-> NilResponse,
               err |-> StatusErrorf("InvalidArgument", v.msg),
               storeCalls |-> <<>>]}
        ELSE {[resp |-> IF q.err # NoError
                        THEN NilResponse
                        ELSE [isNil |-> FALSE, data |-> ToProto(q.rows)],
               err |-> IF q.err # NoError
                       THEN StatusErrorf("Internal", "query failed: " \o q.err.msg)
                       ELSE NoError,
               storeCalls |-> <<[start |-> start, end |-> end,
                                 window |-> req.Window,
                                 aggregation |-> req.Aggregation,
                                 err |-> q.err, rows |-> q.rows]>>] :
                 q \in RepoQueryOf(table, start, end, req.Window, req.Aggregation)}

(* --------------------------- interceptor chain ------------------------- *)

\* The rate limiter listed after the logging and metrics interceptors.
ServerInterceptors_limiterLate ==
    <<"ContextMiddleware", "LoggingInterceptor", "MetricsInterceptor",
      "RateLimitingInterceptor", "CacheInterceptor">>

\* The interceptors SetupServerWithRegistry lists, in the order it lists them.
ServerInterceptors ==
    <<"ContextMiddleware", "RateLimitingInterceptor", "LoggingInterceptor",
      "MetricsInterceptor", "CacheInterceptor">>

Reverse(seq) == [i \in 1..Len(seq) |-> seq[Len(seq) + 1 - i]]

\* The chain built by a loop that wraps with the first interceptor first, so
\* that the last interceptor listed ends up outermost.
chainUnaryInterceptors_forward(interceptors, handler) ==
    Reverse(interceptors) \o <<handler>>

\* chainUnaryInterceptors: the stages of one call from the outermost to the
\* innermost; the loop wraps the handler with the last interceptor first, so the
\* first interceptor listed ends up outermost.
chainUnaryInterceptors(interceptors, handler) == interceptors \o <<handler>>

Chain == chainUnaryInterceptors(ServerInterceptors, "QueryTimeSeries")

\* context.Background(): no request id.
Background == [requestID |-> 0]

\* context.WithValue(ctx, requestIDKey, id)
WithRequestID(ctx, id) == [ctx EXCEPT !.requestID = id]

\* generateRequestID: a UUID, unique to the call; the calls in flight are told
\* apart by the goroutine that serves them.
generateRequestID(r) == r

(* ------------------------------- server -------------------------------- *)

\* DefaultServerConfig, which are the defaults of parseFlags too.
DefaultServerConfig == [CacheSize |-> 1000, RateLimit |-> 5, RateLimitBurst |-> 10]

\* No server built.
NoServer == [CacheSize |-> 0, RateLimit |-> 0, RateLimitBurst |-> 0]

\* NewCache, that is lru.New: an error unless the size is positive.
NewCache(size) ==
    IF size <= 0 THEN Errorf("Must provide a positive size") ELSE NoError

\* What SetupServerWithRegistry comes to on the registry reg, the names of the
\* collectors registered: the cache made with capacity 1000, the limiter with
\* rate 5 and burst 10, the two metrics registered, an error for the first of
\* these steps that fails. server: the capacity, rate and burst in effect.
SetupServerWithRegistry(reg) ==
    IF NewCache(1000) # NoError
    THEN [server |-> NoServer, reg |-> reg,
          err |-> Errorf("failed to create cache: " \o NewCache(1000).msg)]
    ELSE IF "grpc_requests_total" \in reg
    THEN [server |-> NoServer, reg |-> reg,
          err |-> Errorf("failed to register requests metric: duplicate metrics collector registration attempted")]
    ELSE IF "grpc_request_duration_seconds" \in reg
    THEN [server |-> NoServer, reg |-> reg \cup {"grpc_requests_total"},
          err |-> Errorf("failed to register latency metric: duplicate metrics collector registration attempted")]
    ELSE [server |-> [CacheSize |-> 1000, RateLimit |-> 5, RateLimitBurst |-> 10],
          reg |-> reg \cup {"grpc_requests_total", "grpc_request_duration_seconds"},
          err |-> NoError]

\* SetupServer: SetupServerWithRegistry on the default registry; the config is
\* not handed on.
SetupServer(config, reg) == SetupServerWithRegistry(reg)

(* ------------------------------- state --------------------------------- *)

VARIABLES
    clock,      \* the limiter's clock, in ticks
    limiter,    \* the shared rate.Limiter
    cache,      \* the shared lru.Cache, most recently used first
    Requests,   \* grpc_requests_total by method
    Latency,    \* grpc_request_duration_seconds by method: the observations
    calls,      \* the unary calls in flight, by goroutine
    burst,      \* history: the limiter's verdicts at the current instant
    prev,       \* history: the cache stage's last insertion
    vIn,        \* the request a Validate call is made for
    vOut,       \* its result
    kIn,        \* two calls, each a method and a request, made of one Cache
    kOut,       \* how far the two calls are, and what the second one found
    uses,       \* history: the keys of one Cache's hits and insertions, in order
    store,      \* the rows of the table time_series_data, in insertion order
    boot,       \* the goroutine running BootstrapHistoricalData
    fetches,    \* history: the FetchData calls made so far
    tx,         \* the transaction of the batch insert in progress
    agg,        \* an aggregation query made of the table, and its result
    proc,       \* the process: main, its goroutines, channels and root context
    admits,     \* history: the calls the limiter admitted, in all and in an interval
    cron        \* the cron under a clock in seconds: its next tick, its jobs in flight

pipelineVars == <<clock, limiter, cache, Requests, Latency, calls, burst, prev>>

validateVars == <<vIn, vOut>>

keyVars == <<kIn, kOut, uses>>

ingestVars == <<store, boot, fetches>>

batchVars == <<tx, agg>>

lifeVars == <<proc>>

limiterVars == <<admits>>

timerVars == <<cron>>

vars == <<pipelineVars, validateVars, keyVars, ingestVars, batchVars, lifeVars,
          limiterVars, timerVars>>

Goroutines == 1..MaxInFlight

Methods == {QueryMethod}

\* The timestamps of the requests sent to the server.
RequestStarts == {NilTimestamp} \cup {TimestampNew(t) : t \in 1..MaxDay}

RequestEnds == {TimestampNew(t) : t \in 1..MaxDay}

RequestWindows == {"1h", "2h"}

RequestAggregations == {"AVG", ""}

\* pb.TimeSeriesRequest
TimeSeriesRequests ==
    [Start : RequestStarts, End : RequestEnds,
     Window : RequestWindows, Aggregation : RequestAggregations]

\* The request one client repeats (TestMiddlewareIntegration).
RepeatedRequest ==
    [Start |-> TimestampNew(1), End |-> TimestampNew(MaxDay),
     Window |-> "1h", Aggregation |-> "AVG"]

\* The instants Validate is tried on: unset ones, days around both ends of the
\* largest range, and one beyond the reach of a Duration.
ValidateTimes ==
    {ZeroTime, UnixEpoch, FarTime} \cup (1..MaxDay)
        \cup {d + maxTimeRange : d \in 1..MaxDay}

ValidateTimestamps == {NilTimestamp} \cup {TimestampNew(t) : t \in ValidateTimes}

ValidateWindows == {"", "1m", "5m", "1h", "1d", "2h"}

ValidateAggregations == {"", "MIN", "MAX", "AVG", "SUM", "INVALID"}

ValidateRequests ==
    [Start : ValidateTimestamps, End : ValidateTimestamps,
     Window : ValidateWindows, Aggregation : ValidateAggregations]

NoPrev ==
    [valid |-> FALSE, key |-> "", resp |-> NilResponse, handlerCalls |-> 0,
     evicted |-> {}]

NoBurst == [full |-> TRUE, calls |-> 0, admitted |-> 0, lastCode |-> "OK"]

\* cron.New() started at second 0 with the job "@every 5m": the first tick an
\* interval away, no job in flight. jobs: the phase of each job in flight, by
\* the second it was launched at.
NewCron == [now |-> 0, next |-> Interval, fired |-> 0, jobs |-> <<>>]

\* No call admitted yet, no interval under observation.
NoAdmits == [total |-> 0, open |-> FALSE, start |-> 0, count |-> 0]

NoCall ==
    [pc |-> "idle", depth |-> 0,
     req |-> [Start |-> NilTimestamp, End |-> NilTimestamp,
              Window |-> "", Aggregation |-> ""],
     method |-> QueryMethod, ctx |-> Background,
     resp |-> NilResponse, err |-> NoError,
     trace |-> <<>>, start |-> 0, handlerCalls |-> 0, storeCalls |-> <<>>,
     after |-> NoPrev]

NoValidate ==
    [Start |-> NilTimestamp, End |-> NilTimestamp, Window |-> "", Aggregation |-> ""]

Pending == [code |-> "pending", msg |-> ""]

\* The methods calls of one Cache are made for: the service's, and the one of
\* TestCache.
KeyMethods == {QueryMethod, "/test.Service/Method"}

\* The timestamps of those calls: absent, the zero Timestamp, and days.
KeyTimestamps == {NilTimestamp} \cup {TimestampNew(t) : t \in 0..MaxDay}

KeyRequests ==
    [Start : KeyTimestamps, End : KeyTimestamps,
     Window : {"", "1h"}, Aggregation : {"", "AVG"}]

\* The requests made one after the other of one Cache: as many as fill it and
\* one more.
RecencyRequests ==
    {[Start |-> TimestampNew(t), End |-> TimestampNew(CacheSize),
      Window |-> "1h", Aggregation |-> "AVG"] : t \in 0..CacheSize}

\* The goroutines of calls made side by side.
ConcurrentGoroutines == 1..MaxConcurrent

\* The requests of those calls: the ones of TimeSeriesRequests that Validate
\* accepts, which reach the repository.
ConcurrentRequests ==
    {req \in TimeSeriesRequests :
        Validate(AsTime(req.Start), AsTime(req.End), req.Window, req.Aggregation)
            = NoError}

\* The response the handler gives the first of the two calls.
KeyResponse == [isNil |-> FALSE, data |-> ToProto(<<Row(1, 100)>>)]

NoKeyIn == [m1 |-> QueryMethod, r1 |-> NoValidate, m2 |-> QueryMethod, r2 |-> NoValidate]

NoKeyOut == [pc |-> "idle", hit |-> FALSE, resp |-> NilResponse]

\* The instants time.Now() gives the ingestion, in minutes after the epoch.
IngestNows == {TimeUnix(3 * 365 * 24 * Hour + n) : n \in 1..MaxNow}

\* No batch insert in progress. before: the table when the last one began;
\* batches: how many have begun.
NoTx == [pc |-> "idle", data |-> <<>>, pending |-> <<>>, err |-> NoError,
         before |-> <<>>, seen |-> <<>>, batches |-> 0]

\* No aggregation query made.
NoAgg == [pc |-> "idle", start |-> 0, end |-> 0, window |-> "", aggregation |-> "",
          rows |-> <<>>]

\* The ends T of the aggregation queries: a full hour and the 5-minute steps
\* after it, up to the next full hour and beyond.
AggregateNows == {TimeUnix(3 * 365 * 24 * Hour + 5 * n) : n \in 0..MaxQueryNow}

\* A table that holds one point every 5 minutes from T - 24h to last, the
\* value of the i-th point being (k * i) % 11.
Prepopulated(T, last, k) ==
    [i \in 1..((last - (T - 24 * Hour)) \div 5 + 1) |->
        Row(T - 24 * Hour + 5 * (i - 1), (k * i) % 11)]

\* The batches handed to the batch insert: the points of the upstream's
\* payloads.
Batches == {DataPoints(p) : p \in Payloads}

\* What makes a statement of the transaction fail: the database, or the
\* cancellation of the caller's context.
TxFailures == {StoreError.msg, "context canceled"}

\* The ServerConfig values parseFlags can give: the sizes, rates and bursts of
\* the flags -cache-size, -rate-limit and -rate-limit-burst.
ServerConfigs ==
    [CacheSize : {1, 2, 1000, 5000},
     RateLimit : {1, 5, 10, 100},
     RateLimitBurst : {1, 10, 20, 50}]

\* The ServerConfig values a caller of SetupServer can hand it besides: the
\* ones whose cache size is not positive.
InvalidServerConfigs ==
    [CacheSize : {0 - 1, 0}, RateLimit : {0, 5}, RateLimitBurst : {0, 10}]

\* The process before main runs, its flags left at their defaults.
\*   main      where main is: "init", "bootstrapWait" (the first select),
\*             "running" (the loop), "exited"
\*   code      the exit code, once exited
\*   flags     the ServerConfig made of the flags
\*   server    the cache capacity, rate and burst of the server built
\*   setups, setupErr   the calls of SetupServer made, and the last one's error
\*   registry  prometheus.DefaultRegisterer: the collectors registered
\*   ctx       the root context
\*   errChan, doneChan, sigChan   the channels, sigChan by what it holds
\*   bootG, schedG, srvG, shutdown  where the four goroutines are
\*   cause     what woke handleShutdown
\*   srv       the grpc.Server: "new", "serving", "stopping", "stopped"
\*   inflight  the calls the server is handling
\*   cronRunning, ticks   the cron: whether it runs, and the jobs it launched
\*   repo      the store connection
\*   signalled, serveErr, answered, log   history: a signal was
\*             received; where main was when Serve returned an error; when
\*             the last query was answered; the steps handleShutdown made
NoProc ==
    [main |-> "init", code |-> 0, flags |-> DefaultServerConfig,
     server |-> NoServer, setups |-> 0, setupErr |-> NoError, registry |-> {},
     ctx |-> "active", errChan |-> <<>>, doneChan |-> 0,
     sigChan |-> 0, bootG |-> "none", schedG |-> "none", srvG |-> "none",
     shutdown |-> "none", cause |-> "none", srv |-> "new", inflight |-> 0,
     cronRunning |-> FALSE, ticks |-> 0, repo |-> "open",
     signalled |-> FALSE, serveErr |-> "none", answered |-> "none",
     log |-> <<>>]

\* No BootstrapHistoricalData running.
NoBoot == [pc |-> "idle", endTime |-> 0, err |-> NoError]

Init ==
    /\ clock = 0
    /\ admits = NoAdmits
    /\ cron = NewCron
    /\ limiter = NewLimiter
    /\ cache = <<>>
    /\ Requests = [m \in Methods |-> 0]
    /\ Latency = [m \in Methods |-> 0]
    /\ calls = [r \in Goroutines |-> NoCall]
    /\ burst = NoBurst
    /\ prev = NoPrev
    /\ vIn = NoValidate
    /\ vOut = Pending
    /\ kIn = NoKeyIn
    /\ kOut = NoKeyOut
    /\ uses = <<>>
    /\ store = <<>>
    /\ boot = NoBoot
    /\ fetches = <<>>
    /\ tx = NoTx
    /\ agg = NoAgg
    /\ proc = NoProc

(* ------------------------------ helpers -------------------------------- *)

AtStage(r, name) ==
    /\ calls[r].pc = "enter"
    /\ Chain[calls[r].depth] = name

Returning(r, name) ==
    /\ calls[r].pc = "return"
    /\ Chain[calls[r].depth] = name

\* The call c as it enters the stage under its current one.
Enter(c, name) ==
    [c EXCEPT !.trace = Append(@, <<"enter", name, c.ctx.requestID>>)]

\* The call c as the stage `name` hands resp and err back to the stage above it.
Return(c, name, resp, err) ==
    [c EXCEPT !.pc = IF c.depth = 1 THEN "done" ELSE "return",
              !.depth = c.depth - 1,
              !.resp = resp,
              !.err = err,
              !.trace = Append(@, <<"exit", name>>)]

\* The call c as the stage `name` calls handler(ctx, req).
CallNext(c, name) == [Enter(c, name) EXCEPT !.depth = c.depth + 1]

InFlight == {r \in Goroutines : calls[r].pc # "idle"}

(* ------------------------------ actions -------------------------------- *)

\* grpc.Server hands a unary call to the chained interceptor: chain(ctx, req).
Serve(r, requests) ==
    /\ calls[r].pc = "idle"
    /\ Requests[QueryMethod] + Cardinality(InFlight) < MaxRequests
    /\ \E req \in requests :
         calls' = [calls EXCEPT ![r] =
                     [NoCall EXCEPT !.pc = "enter", !.depth = 1, !.req = req]]
    /\ UNCHANGED <<clock, limiter, cache, Requests, Latency, burst, prev, vIn, vOut, keyVars, ingestVars, batchVars, lifeVars, limiterVars, timerVars>>

\* ContextMiddleware: put a fresh request id in the context, call the next stage.
ContextMiddleware(r) ==
    /\ AtStage(r, "ContextMiddleware")
    /\ LET c == [calls[r] EXCEPT !.ctx = WithRequestID(@, generateRequestID(r))]
       IN  calls' = [calls EXCEPT ![r] =
                       [c EXCEPT !.depth = @ + 1,
                                 !.trace = Append(@, <<"enter", "ContextMiddleware",
                                                       calls[r].ctx.requestID>>)]]
    /\ UNCHANGED <<clock, limiter, cache, Requests, Latency, burst, prev, vIn, vOut, keyVars, ingestVars, batchVars, lifeVars, limiterVars, timerVars>>

\* RateLimitingInterceptor: reject when the limiter has no token, else call on.
RateLimitingInterceptor(r) ==
    /\ AtStage(r, "RateLimitingInterceptor")
    /\ LET a == Allow(limiter, clock)
           e == StatusErrorf("ResourceExhausted", "rate limit exceeded")
       IN  /\ limiter' = a.lim
           /\ calls' = [calls EXCEPT ![r] =
                          IF a.ok
                          THEN CallNext(calls[r], "RateLimitingInterceptor")
                          ELSE Return(Enter(calls[r], "RateLimitingInterceptor"),
                                      "RateLimitingInterceptor", NilResponse, e)]
           /\ burst' = [burst EXCEPT !.calls = Min(@ + 1, Burst + 1),
                                     !.admitted = IF a.ok THEN @ + 1 ELSE @,
                                     !.lastCode = IF a.ok THEN "OK" ELSE e.code]
    /\ UNCHANGED <<clock, cache, Requests, Latency, prev, vIn, vOut, keyVars, ingestVars, batchVars, lifeVars, limiterVars, timerVars>>

\* LoggingInterceptor up to its call of the next stage.
LoggingInterceptor(r) ==
    /\ AtStage(r, "LoggingInterceptor")
    /\ calls' = [calls EXCEPT ![r] = CallNext(calls[r], "LoggingInterceptor")]
    /\ UNCHANGED <<clock, limiter, cache, Requests, Latency, burst, prev, vIn, vOut, keyVars, ingestVars, batchVars, lifeVars, limiterVars, timerVars>>

\* MetricsInterceptor up to its call of the next stage: start := time.Now().
MetricsInterceptor(r) ==
    /\ AtStage(r, "MetricsInterceptor")
    /\ calls' = [calls EXCEPT ![r] =
                   [CallNext(calls[r], "MetricsInterceptor") EXCEPT !.start = clock]]
    /\ UNCHANGED <<clock, limiter, cache, Requests, Latency, burst, prev, vIn, vOut, keyVars, ingestVars, batchVars, lifeVars, limiterVars, timerVars>>

\* Cache.InterceptorFunc up to its call of the next stage: a hit returns the
\* cached response at once.
CacheInterceptor(r) ==
    /\ AtStage(r, "CacheInterceptor")
    /\ LET key == generateCacheKey(calls[r].method, calls[r].req)
           g == CacheGet(cache, key)
           c == [Enter(calls[r], "CacheInterceptor") EXCEPT
                   !.after = IF prev.valid /\ prev.key = key THEN prev ELSE NoPrev]
       IN  /\ cache' = g.cache
           /\ calls' = [calls EXCEPT ![r] =
                          IF g.ok
                          THEN Return(c, "CacheInterceptor", g.value, NoError)
                          ELSE [c EXCEPT !.depth = @ + 1]]
    /\ UNCHANGED <<clock, limiter, Requests, Latency, burst, prev, vIn, vOut, keyVars, ingestVars, batchVars, lifeVars, limiterVars, timerVars>>

\* The handler runs: TimeSeriesService.QueryTimeSeries.
QueryTimeSeries(r) ==
    /\ AtStage(r, "QueryTimeSeries")
    /\ \E o \in QueryTimeSeriesReturns(calls[r].req) :
         LET c == [Enter(calls[r], "QueryTimeSeries") EXCEPT
                     !.handlerCalls = @ + 1,
                     !.storeCalls = @ \o o.storeCalls]
         IN  calls' = [calls EXCEPT ![r] = Return(c, "QueryTimeSeries", o.resp, o.err)]
    /\ UNCHANGED <<clock, limiter, cache, Requests, Latency, burst, prev, vIn, vOut, keyVars, ingestVars, batchVars, lifeVars, limiterVars, timerVars>>

\* The handler runs, the table behind its repository.
QueryTimeSeriesOfStore(r) ==
    /\ AtStage(r, "QueryTimeSeries")
    /\ \E o \in QueryTimeSeriesOf(store, calls[r].req) :
         LET c == [Enter(calls[r], "QueryTimeSeries") EXCEPT
                     !.handlerCalls = @ + 1,
                     !.storeCalls = @ \o o.storeCalls]
         IN  calls' = [calls EXCEPT ![r] = Return(c, "QueryTimeSeries", o.resp, o.err)]
    /\ UNCHANGED <<clock, limiter, cache, Requests, Latency, burst, prev, vIn, vOut, keyVars, ingestVars, batchVars, lifeVars, limiterVars, timerVars>>

\* The cache stage that stores whatever the handler returned, errors included.
CacheInterceptorReturn_storeAll(r) ==
    /\ Returning(r, "CacheInterceptor")
    /\ LET c == calls[r]
           key == generateCacheKey(c.method, c.req)
       IN  /\ cache' = CacheAdd(cache, key, c.resp)
           /\ calls' = [calls EXCEPT ![r] =
                          Return(c, "CacheInterceptor", c.resp, c.err)]
           /\ prev' = IF c.err = NoError
                      THEN [valid |-> TRUE, key |-> key, resp |-> c.resp,
                            handlerCalls |-> c.handlerCalls,
                            evicted |-> CacheKeys(cache)
                                          \ CacheKeys(CacheAdd(cache, key, c.resp))]
                      ELSE prev
    /\ UNCHANGED <<clock, limiter, Requests, Latency, burst, vIn, vOut, keyVars, ingestVars, batchVars, lifeVars, limiterVars, timerVars>>

\* Cache.InterceptorFunc after the handler returned: cache a success, pass an
\* error on with a nil response.
CacheInterceptorReturn(r) ==
    /\ Returning(r, "CacheInterceptor")
    /\ LET c == calls[r]
           key == generateCacheKey(c.method, c.req)
       IN  IF c.err # NoError
           THEN /\ calls' = [calls EXCEPT ![r] =
                               Return(c, "CacheInterceptor", NilResponse, c.err)]
                /\ UNCHANGED <<cache, prev>>
           ELSE /\ cache' = CacheAdd(cache, key, c.resp)
                /\ calls' = [calls EXCEPT ![r] =
                               Return(c, "CacheInterceptor", c.resp, NoError)]
                /\ prev' = [valid |-> TRUE, key |-> key, resp |-> c.resp,
                            handlerCalls |-> c.handlerCalls,
                            evicted |-> CacheKeys(cache)
                                          \ CacheKeys(CacheAdd(cache, key, c.resp))]
    /\ UNCHANGED <<clock, limiter, Requests, Latency, burst, vIn, vOut, keyVars, ingestVars, batchVars, lifeVars, limiterVars, timerVars>>

\* The metrics stage that records nothing for a call that failed.
MetricsInterceptorReturn_successOnly(r) ==
    /\ Returning(r, "MetricsInterceptor")
    /\ Latency' = [Latency EXCEPT ![calls[r].method] =
                     IF calls[r].err = NoError THEN @ + 1 ELSE @]
    /\ Requests' = [Requests EXCEPT ![calls[r].method] =
                      IF calls[r].err = NoError THEN @ + 1 ELSE @]
    /\ calls' = [calls EXCEPT ![r] =
                   Return(calls[r], "MetricsInterceptor", calls[r].resp, calls[r].err)]
    /\ UNCHANGED <<clock, limiter, cache, burst, prev, vIn, vOut, keyVars, ingestVars, batchVars, lifeVars, limiterVars, timerVars>>

\* MetricsInterceptor after the handler returned: one latency observation and
\* one count for the method, whatever the outcome.
MetricsInterceptorReturn(r) ==
    /\ Returning(r, "MetricsInterceptor")
    /\ Latency' = [Latency EXCEPT ![calls[r].method] = @ + 1]
    /\ Requests' = [Requests EXCEPT ![calls[r].method] = @ + 1]
    /\ calls' = [calls EXCEPT ![r] =
                   Return(calls[r], "MetricsInterceptor", calls[r].resp, calls[r].err)]
    /\ UNCHANGED <<clock, limiter, cache, burst, prev, vIn, vOut, keyVars, ingestVars, batchVars, lifeVars, limiterVars, timerVars>>

\* LoggingInterceptor after the handler returned: log and pass the outcome on.
LoggingInterceptorReturn(r) ==
    /\ Returning(r, "LoggingInterceptor")
    /\ calls' = [calls EXCEPT ![r] =
                   Return(calls[r], "LoggingInterceptor", calls[r].resp, calls[r].err)]
    /\ UNCHANGED <<clock, limiter, cache, Requests, Latency, burst, prev, vIn, vOut, keyVars, ingestVars, batchVars, lifeVars, limiterVars, timerVars>>

\* RateLimitingInterceptor and ContextMiddleware return what the handler returns.
TailReturn(r) ==
    /\ \/ Returning(r, "RateLimitingInterceptor")
       \/ Returning(r, "ContextMiddleware")
    /\ calls' = [calls EXCEPT ![r] =
                   Return(calls[r], Chain[calls[r].depth], calls[r].resp, calls[r].err)]
    /\ UNCHANGED <<clock, limiter, cache, Requests, Latency, burst, prev, vIn, vOut, keyVars, ingestVars, batchVars, lifeVars, limiterVars, timerVars>>

\* The response leaves the server; the goroutine ends.
Respond(r) ==
    /\ calls[r].pc = "done"
    /\ calls' = [calls EXCEPT ![r] = NoCall]
    /\ UNCHANGED <<clock, limiter, cache, Requests, Latency, burst, prev, vIn, vOut, keyVars, ingestVars, batchVars, lifeVars, limiterVars, timerVars>>

\* Time passes: one tick of the limiter's clock.
Tick ==
    /\ clock < MaxClock
    /\ clock' = clock + 1
    /\ burst' = [full |-> Advance(limiter, clock + 1) = Burst,
                 calls |-> 0, admitted |-> 0, lastCode |-> "OK"]
    /\ UNCHANGED <<limiter, cache, Requests, Latency, calls, prev, vIn, vOut, keyVars, ingestVars, batchVars, lifeVars, limiterVars, timerVars>>

\* Cache.InterceptorFunc for the first of two calls made of an empty cache: a
\* miss, the handler's response is stored under the call's key.
CacheFirstCall ==
    /\ kOut.pc = "first"
    /\ LET key == generateCacheKey(kIn.m1, kIn.r1)
           g == CacheGet(cache, key)
       IN  /\ ~g.ok
           /\ cache' = CacheAdd(g.cache, key, KeyResponse)
           /\ kOut' = [kOut EXCEPT !.pc = "second"]
    /\ UNCHANGED <<clock, limiter, Requests, Latency, calls, burst, prev,
                   validateVars, kIn, uses, ingestVars, batchVars, lifeVars, limiterVars, timerVars>>

\* Cache.InterceptorFunc for the second call: the lookup under its key, and on
\* a miss the handler's response, which is nil here, stored under it.
CacheSecondCall ==
    /\ kOut.pc = "second"
    /\ LET key == generateCacheKey(kIn.m2, kIn.r2)
           g == CacheGet(cache, key)
       IN  /\ cache' = IF g.ok THEN g.cache ELSE CacheAdd(g.cache, key, NilResponse)
           /\ kOut' = [pc |-> "done", hit |-> g.ok,
                       resp |-> IF g.ok THEN g.value ELSE NilResponse]
    /\ UNCHANGED <<clock, limiter, Requests, Latency, calls, burst, prev,
                   validateVars, kIn, uses, ingestVars, batchVars, lifeVars, limiterVars, timerVars>>

\* BootstrapHistoricalData up to the return of its first FetchData, for the two
\* years before now: done when the fetch succeeded, else on to the fallback.
BootstrapHistoricalData ==
    /\ boot.pc = "idle"
    /\ \E endTime \in IngestNows :
         LET startTime == AddDate(endTime, 0 - 2)
         IN  \E o \in FetchDataReturns(store, startTime, endTime) :
               /\ store' = o.store
               /\ fetches' = Append(fetches,
                                    FetchRecord("bootstrap", startTime, endTime, o))
               /\ boot' = [pc |-> IF o.err = NoError THEN "done" ELSE "fallback",
                           endTime |-> endTime, err |-> NoError]
    /\ UNCHANGED <<pipelineVars, validateVars, keyVars, batchVars, lifeVars, limiterVars, timerVars>>

\* The fallback that keeps fetching the last 24 hours until a fetch succeeds.
BootstrapFallback_again ==
    /\ boot.pc = "fallback"
    /\ LET recentStart == TimeAdd(boot.endTime, 0 - 24 * Hour)
       IN  \E o \in FetchDataReturns(store, recentStart, boot.endTime) :
             /\ store' = o.store
             /\ fetches' = Append(fetches,
                                  FetchRecord("bootstrap", recentStart, boot.endTime, o))
             /\ boot' = [boot EXCEPT
                           !.pc = IF o.err # NoError /\ Len(fetches) < 2
                                  THEN "fallback" ELSE "done",
                           !.err = IF o.err = NoError THEN NoError
                                   ELSE Errorf("failed to fetch recent data: "
                                                 \o o.err.msg)]
    /\ UNCHANGED <<pipelineVars, validateVars, keyVars, batchVars, lifeVars, limiterVars, timerVars>>

\* The fallback that returns an error although its fetch succeeded.
BootstrapFallback_failed ==
    /\ boot.pc = "fallback"
    /\ LET recentStart == TimeAdd(boot.endTime, 0 - 24 * Hour)
       IN  \E o \in FetchDataReturns(store, recentStart, boot.endTime) :
             /\ store' = o.store
             /\ fetches' = Append(fetches,
                                  FetchRecord("bootstrap", recentStart, boot.endTime, o))
             /\ boot' = [boot EXCEPT
                           !.pc = "done",
                           !.err = Errorf("failed to fetch recent data: "
                                            \o o.err.msg)]
    /\ UNCHANGED <<pipelineVars, validateVars, keyVars, batchVars, lifeVars, limiterVars, timerVars>>

\* BootstrapHistoricalData after its first FetchData failed: one FetchData for
\* the 24 hours before the same end, whose failure is the error returned.
BootstrapFallback ==
    /\ boot.pc = "fallback"
    /\ LET recentStart == TimeAdd(boot.endTime, 0 - 24 * Hour)
       IN  \E o \in FetchDataReturns(store, recentStart, boot.endTime) :
             /\ store' = o.store
             /\ fetches' = Append(fetches,
                                  FetchRecord("bootstrap", recentStart, boot.endTime, o))
             /\ boot' = [boot EXCEPT
                           !.pc = "done",
                           !.err = IF o.err = NoError THEN NoError
                                   ELSE Errorf("failed to fetch recent data: "
                                                 \o o.err.msg)]
    /\ UNCHANGED <<pipelineVars, validateVars, keyVars, batchVars, lifeVars, limiterVars, timerVars>>

\* The fetches the scheduler's firings made.
Firings == {i \in 1..Len(fetches) : fetches[i].caller = "collectData"}

\* The firing whose failed fetch stops the cron and reports the error.
collectData_fatal ==
    /\ Cardinality(Firings) < MaxFirings
    /\ \E endTime \in IngestNows :
         LET startTime == TimeAdd(endTime, 0 - 5)
         IN  \E o \in FetchDataReturns(store, startTime, endTime) :
               /\ store' = o.store
               /\ fetches' = Append(fetches,
                                    FetchRecord("collectData", startTime, endTime, o))
               /\ proc' = IF o.err = NoError THEN proc
                          ELSE [proc EXCEPT !.cronRunning = FALSE,
                                            !.errChan = Append(@, o.err)]
    /\ UNCHANGED <<pipelineVars, validateVars, keyVars, boot, batchVars, limiterVars, timerVars>>

\* Scheduler.collectData, one firing: FetchData for the 5 minutes before now;
\* an error is logged and nothing else.
collectData ==
    /\ Cardinality(Firings) < MaxFirings
    /\ \E endTime \in IngestNows :
         LET startTime == TimeAdd(endTime, 0 - 5)
         IN  \E o \in FetchDataReturns(store, startTime, endTime) :
               /\ store' = o.store
               /\ fetches' = Append(fetches,
                                    FetchRecord("collectData", startTime, endTime, o))
    /\ UNCHANGED <<pipelineVars, validateVars, keyVars, boot, batchVars, lifeVars, limiterVars, timerVars>>

\* BatchInsertTimeSeriesData up to the first insert: the transaction begun and
\* the statement prepared, or the error of the one that failed.
BatchInsertBegin ==
    /\ tx.pc = "idle"
    /\ tx.batches < MaxBatches
    /\ \E data \in Batches :
         LET t == [tx EXCEPT !.data = data, !.pending = <<>>, !.before = store,
                             !.seen = store, !.batches = @ + 1]
         IN  \/ tx' = [t EXCEPT !.pc = "exec", !.err = NoError]
             \/ \E cause \in TxFailures :
                  tx' = [t EXCEPT !.pc = "done",
                                  !.err = Errorf("failed to begin transaction: " \o cause)]
             \/ \E cause \in TxFailures :
                  tx' = [t EXCEPT !.pc = "done",
                                  !.err = Errorf("failed to prepare statement: " \o cause)]
    /\ UNCHANGED <<pipelineVars, validateVars, keyVars, ingestVars, lifeVars, agg, limiterVars, timerVars>>

\* The insert of one point made outside any transaction: on the table at once.
BatchInsertExec_autocommit ==
    /\ tx.pc = "exec"
    /\ Len(tx.pending) < Len(tx.data)
    /\ \/ /\ tx' = [tx EXCEPT !.pending = Append(@, tx.data[Len(tx.pending) + 1])]
          /\ store' = Append(store, tx.data[Len(tx.pending) + 1])
       \/ /\ \E cause \in TxFailures :
               tx' = [tx EXCEPT !.pc = "done", !.pending = <<>>,
                                !.err = Errorf("failed to insert data point: " \o cause)]
          /\ UNCHANGED store
    /\ UNCHANGED <<pipelineVars, validateVars, keyVars, boot, fetches, lifeVars, agg, limiterVars, timerVars>>

\* BatchInsertTimeSeriesData, one turn of its loop: the next point inserted in
\* the transaction, where only the transaction sees it; or the insert fails,
\* and the deferred Rollback drops what the transaction inserted.
BatchInsertExec ==
    /\ tx.pc = "exec"
    /\ Len(tx.pending) < Len(tx.data)
    /\ \/ tx' = [tx EXCEPT !.pending = Append(@, tx.data[Len(tx.pending) + 1])]
       \/ \E cause \in TxFailures :
            tx' = [tx EXCEPT !.pc = "done", !.pending = <<>>,
                             !.err = Errorf("failed to insert data point: " \o cause)]
    /\ UNCHANGED <<pipelineVars, validateVars, keyVars, ingestVars, lifeVars, agg, limiterVars, timerVars>>

\* BatchInsertTimeSeriesData after its loop: Commit puts the transaction's rows
\* on the table, all at once; or Commit fails and the rows are dropped.
BatchInsertCommit ==
    /\ tx.pc = "exec"
    /\ Len(tx.pending) = Len(tx.data)
    /\ \/ /\ store' = store \o tx.pending
          /\ tx' = [tx EXCEPT !.pc = "done", !.pending = <<>>, !.err = NoError]
       \/ /\ \E cause \in TxFailures :
               tx' = [tx EXCEPT !.pc = "done", !.pending = <<>>,
                                !.err = Errorf("failed to commit transaction: " \o cause)]
          /\ UNCHANGED store
    /\ UNCHANGED <<pipelineVars, validateVars, keyVars, boot, fetches, lifeVars, agg, limiterVars, timerVars>>

\* BatchInsertTimeSeriesData has returned; the next one can begin.
BatchInsertReturn ==
    /\ tx.pc = "done"
    /\ tx' = [tx EXCEPT !.pc = "idle"]
    /\ UNCHANGED <<pipelineVars, validateVars, keyVars, ingestVars, lifeVars, agg, limiterVars, timerVars>>

\* QueryTimeSeriesData on another connection while a batch insert is under
\* way or after it: it reads the rows committed to the table.
QueryTimeSeriesData ==
    /\ tx.pc # "idle"
    /\ tx.seen # store
    /\ tx' = [tx EXCEPT !.seen = store]
    /\ UNCHANGED <<pipelineVars, validateVars, keyVars, ingestVars, lifeVars, agg, limiterVars, timerVars>>

\* The process runs: main has started its goroutines and has not exited.
Alive == proc.main \notin {"init", "exited"}

\* The answers the upstream gives the process: none, or 200 and two records.
ProcessAnswers ==
    {a \in UpstreamAnswers :
        ~a.sent \/ (a.status = 200 /\ a.decodable /\ Len(a.records) = 2)}

\* A FetchData made in the process: time.Now() gives the first of IngestNows;
\* the request fails once the root context is cancelled, and the batch insert
\* fails, the table as it was, once the store connection is closed.
FetchInProcess ==
    /\ Alive
    /\ fetches'[Len(fetches')].answer \in ProcessAnswers
    /\ fetches'[Len(fetches')].end = TimeUnix(3 * 365 * 24 * Hour + 1)
    /\ proc.ctx = "cancelled" => ~fetches'[Len(fetches')].answer.sent
    /\ proc.repo = "closed" => store' = store

\* main up to its first select: the flags parsed, the store opened, the
\* scheduler and the server built, the listener bound and the four goroutines
\* started; or one of these fails and Fatalf ends the process.
mainStart ==
    /\ proc.main = "init"
    /\ \/ proc' = [proc EXCEPT !.main = "exited", !.code = 1]
       \/ LET r == SetupServer(proc.flags, proc.registry)
          IN  /\ r.err = NoError
              /\ proc' = [proc EXCEPT !.main = "bootstrapWait",
                                      !.server = r.server, !.setups = @ + 1,
                                      !.setupErr = r.err, !.registry = r.reg,
                                      !.bootG = "running", !.schedG = "start",
                                      !.srvG = "start", !.shutdown = "start"]
    /\ UNCHANGED <<pipelineVars, validateVars, keyVars, ingestVars, batchVars, limiterVars, timerVars>>

\* SetupServer called with a config, as its test calls it, in a process that
\* has not run main.
SetupServerCall ==
    /\ proc.main = "init"
    /\ proc.setups < MaxSetups
    /\ \E config \in ServerConfigs \cup InvalidServerConfigs :
         LET r == SetupServer(config, proc.registry)
         IN  proc' = [proc EXCEPT !.flags = config, !.server = r.server,
                                  !.setups = @ + 1, !.setupErr = r.err,
                                  !.registry = r.reg]
    /\ UNCHANGED <<pipelineVars, validateVars, keyVars, ingestVars, batchVars, limiterVars, timerVars>>

\* The bootstrap goroutine after BootstrapHistoricalData returned: its error
\* on errChan, or true on doneChan.
bootstrapGoroutine ==
    /\ Alive
    /\ proc.bootG = "running"
    /\ boot.pc = "done"
    /\ proc' = IF boot.err # NoError
               THEN [proc EXCEPT
                       !.bootG = "returned",
                       !.errChan = Append(@, Errorf("bootstrap error: "
                                                      \o boot.err.msg))]
               ELSE [proc EXCEPT !.bootG = "returned", !.doneChan = 1]
    /\ UNCHANGED <<pipelineVars, validateVars, keyVars, ingestVars, batchVars, limiterVars, timerVars>>

\* Scheduler.Start in its goroutine: the job added and the cron started,
\* whatever Stop did before.
SchedulerStart ==
    /\ Alive
    /\ proc.schedG = "start"
    /\ proc' = [proc EXCEPT !.schedG = "returned", !.cronRunning = TRUE]
    /\ UNCHANGED <<pipelineVars, validateVars, keyVars, ingestVars, batchVars, limiterVars, timerVars>>

\* The cron's run loop at the end of an interval: the job launched in a
\* goroutine of its own.
cronTick(limit) ==
    /\ Alive
    /\ proc.cronRunning
    /\ proc.ticks < limit
    /\ proc' = [proc EXCEPT !.ticks = @ + 1]
    /\ UNCHANGED <<pipelineVars, validateVars, keyVars, ingestVars, batchVars, limiterVars, timerVars>>

\* The jobs launched that have not made their fetch yet.
JobsInFlight == proc.ticks - Cardinality(Firings)

\* The server goroutine calls Serve: the server accepts, or, stopped before,
\* Serve returns an error, which goes on errChan and cancels the root context.
Serving ==
    /\ Alive
    /\ proc.srvG = "start"
    /\ proc' = IF proc.srv = "new"
               THEN [proc EXCEPT !.srvG = "serving", !.srv = "serving"]
               ELSE [proc EXCEPT
                       !.srvG = "returned",
                       !.errChan = Append(@, Errorf("server error: grpc: the server has been stopped")),
                       !.ctx = "cancelled",
                       !.serveErr = proc.main]
    /\ UNCHANGED <<pipelineVars, validateVars, keyVars, ingestVars, batchVars, limiterVars, timerVars>>

\* Serve returns an error of its listener: the error on errChan and the root
\* context cancelled.
ServeError ==
    /\ Alive
    /\ proc.srvG = "serving"
    /\ proc.srv = "serving"
    /\ proc' = [proc EXCEPT
                  !.srvG = "returned",
                  !.errChan = Append(@, Errorf("server error: accept failed")),
                  !.ctx = "cancelled",
                  !.serveErr = proc.main]
    /\ UNCHANGED <<pipelineVars, validateVars, keyVars, ingestVars, batchVars, limiterVars, timerVars>>

\* Serve returns nil once the server is stopped.
ServeReturn ==
    /\ Alive
    /\ proc.srvG = "serving"
    /\ proc.srv \in {"stopping", "stopped"}
    /\ proc' = [proc EXCEPT !.srvG = "returned"]
    /\ UNCHANGED <<pipelineVars, validateVars, keyVars, ingestVars, batchVars, limiterVars, timerVars>>

\* The server that takes calls once the backfill is over.
QueryAccepted_afterBackfill ==
    /\ Alive
    /\ proc.srv = "serving"
    /\ proc.srvG = "serving"
    /\ proc.main = "running"
    /\ proc.inflight < MaxInFlight
    /\ proc' = [proc EXCEPT !.inflight = @ + 1]
    /\ UNCHANGED <<pipelineVars, validateVars, keyVars, ingestVars, batchVars, limiterVars, timerVars>>

\* The serving server takes a call.
QueryAccepted ==
    /\ Alive
    /\ proc.srv = "serving"
    /\ proc.srvG = "serving"
    /\ proc.inflight < MaxInFlight
    /\ proc' = [proc EXCEPT !.inflight = @ + 1]
    /\ UNCHANGED <<pipelineVars, validateVars, keyVars, ingestVars, batchVars, limiterVars, timerVars>>

\* A call is answered, from the table as it is.
QueryAnswered ==
    /\ Alive
    /\ proc.inflight > 0
    /\ proc' = [proc EXCEPT
                  !.inflight = @ - 1,
                  !.answered = IF boot.pc = "done" THEN "afterBackfill"
                               ELSE IF store = <<>> THEN "duringBackfillEmpty"
                               ELSE "duringBackfill"]
    /\ UNCHANGED <<pipelineVars, validateVars, keyVars, ingestVars, batchVars, limiterVars, timerVars>>

\* handleShutdown up to its select: the two signals routed to sigChan.
handleShutdownNotify ==
    /\ Alive
    /\ proc.shutdown = "start"
    /\ proc' = [proc EXCEPT !.shutdown = "select"]
    /\ UNCHANGED <<pipelineVars, validateVars, keyVars, ingestVars, batchVars, limiterVars, timerVars>>

\* An interrupt or terminate signal reaches the process and goes on sigChan,
\* which holds one.
Signal ==
    /\ Alive
    /\ proc.shutdown \notin {"none", "start"}
    /\ proc.sigChan = 0
    /\ proc' = [proc EXCEPT !.sigChan = 1, !.signalled = TRUE]
    /\ UNCHANGED <<pipelineVars, validateVars, keyVars, ingestVars, batchVars, limiterVars, timerVars>>

\* handleShutdown's select: woken by the root context's cancellation or by a
\* signal.
handleShutdown ==
    /\ Alive
    /\ proc.shutdown = "select"
    /\ \/ /\ proc.ctx = "cancelled"
          /\ proc' = [proc EXCEPT !.shutdown = "gracefulStop", !.cause = "context"]
       \/ /\ proc.sigChan = 1
          /\ proc' = [proc EXCEPT !.shutdown = "gracefulStop", !.cause = "signal",
                                  !.sigChan = 0]
    /\ UNCHANGED <<pipelineVars, validateVars, keyVars, ingestVars, batchVars, limiterVars, timerVars>>

\* GracefulStop begins: the listener closed, no new call taken.
GracefulStop ==
    /\ Alive
    /\ proc.shutdown = "gracefulStop"
    /\ proc' = [proc EXCEPT !.shutdown = "draining", !.srv = "stopping",
                            !.log = Append(@, "stopAccepting")]
    /\ UNCHANGED <<pipelineVars, validateVars, keyVars, ingestVars, batchVars, limiterVars, timerVars>>

\* GracefulStop returns, once the calls in flight are answered.
GracefulStopReturn ==
    /\ Alive
    /\ proc.shutdown = "draining"
    /\ proc.inflight = 0
    /\ proc' = [proc EXCEPT !.shutdown = "stopScheduler", !.srv = "stopped",
                            !.log = Append(@, "drained")]
    /\ UNCHANGED <<pipelineVars, validateVars, keyVars, ingestVars, batchVars, limiterVars, timerVars>>

\* Scheduler.Stop in handleShutdown: the cron, if it runs, launches no more
\* jobs; the jobs in flight are left alone.
SchedulerStop ==
    /\ Alive
    /\ proc.shutdown = "stopScheduler"
    /\ proc' = [proc EXCEPT !.shutdown = "closeRepo", !.cronRunning = FALSE,
                            !.log = Append(@, "schedulerStopped")]
    /\ UNCHANGED <<pipelineVars, validateVars, keyVars, ingestVars, batchVars, limiterVars, timerVars>>

\* repo.Close in handleShutdown, which then returns.
Close ==
    /\ Alive
    /\ proc.shutdown = "closeRepo"
    /\ proc' = [proc EXCEPT !.shutdown = "returned", !.repo = "closed",
                            !.log = Append(@, "repoClosed")]
    /\ UNCHANGED <<pipelineVars, validateVars, keyVars, ingestVars, batchVars, limiterVars, timerVars>>

\* main's first select takes doneChan: on to the loop.
mainBootstrapCompleted ==
    /\ proc.main = "bootstrapWait"
    /\ proc.doneChan = 1
    /\ proc' = [proc EXCEPT !.main = "running", !.doneChan = 0]
    /\ UNCHANGED <<pipelineVars, validateVars, keyVars, ingestVars, batchVars, limiterVars, timerVars>>

\* The first select that logs the error and goes on to the loop.
mainFatal_logged ==
    /\ proc.main = "bootstrapWait"
    /\ proc.errChan # <<>>
    /\ proc' = [proc EXCEPT !.main = "running", !.errChan = Tail(@)]
    /\ UNCHANGED <<pipelineVars, validateVars, keyVars, ingestVars, batchVars, limiterVars, timerVars>>

\* main's first select takes an error off errChan: Fatalf, exit code 1.
mainFatal ==
    /\ proc.main = "bootstrapWait"
    /\ proc.errChan # <<>>
    /\ proc' = [proc EXCEPT !.main = "exited", !.code = 1, !.errChan = Tail(@)]
    /\ UNCHANGED <<pipelineVars, validateVars, keyVars, ingestVars, batchVars, limiterVars, timerVars>>

\* main's loop takes an error off errChan, logs it and goes round.
mainServiceError ==
    /\ proc.main = "running"
    /\ proc.errChan # <<>>
    /\ proc' = [proc EXCEPT !.errChan = Tail(@)]
    /\ UNCHANGED <<pipelineVars, validateVars, keyVars, ingestVars, batchVars, limiterVars, timerVars>>

\* main's loop finds the root context cancelled and returns: exit code 0.
mainReturn ==
    /\ proc.main = "running"
    /\ proc.ctx = "cancelled"
    /\ proc' = [proc EXCEPT !.main = "exited", !.code = 0]
    /\ UNCHANGED <<pipelineVars, validateVars, keyVars, ingestVars, batchVars, limiterVars, timerVars>>

\* QueryTimeSeries for a valid request, from PostgresRepo.Query on: the SELECT
\* made of the table, its rows converted to the response's points.
Query ==
    /\ agg.pc = "request"
    /\ agg.window \in validWindows
    /\ agg.aggregation \in validAggregations
    /\ LET rows == SelectBuckets(store, agg.start, agg.end, agg.window,
                                 agg.aggregation)
       IN  agg' = [agg EXCEPT !.pc = "done", !.rows = ToProto(rows)]
    /\ UNCHANGED <<pipelineVars, validateVars, keyVars, ingestVars, tx, lifeVars, limiterVars, timerVars>>

\* The place of the cache stage in the chain.
CacheDepth == CHOOSE d \in 1..Len(Chain) : Chain[d] = "CacheInterceptor"

\* The cache stage's interceptor is called with a request.
CacheStageCall(r) ==
    /\ calls[r].pc = "idle"
    /\ \E req \in ConcurrentRequests :
         calls' = [calls EXCEPT ![r] =
                     [NoCall EXCEPT !.pc = "enter", !.depth = CacheDepth,
                                    !.req = req]]
    /\ UNCHANGED <<clock, limiter, cache, Requests, Latency, burst, prev, vIn, vOut, keyVars, ingestVars, batchVars, lifeVars, limiterVars, timerVars>>

\* The cache stage's interceptor has returned to its caller.
CacheStageReturned(r) ==
    /\ calls[r].pc = "return"
    /\ calls[r].depth = CacheDepth - 1
    /\ calls' = [calls EXCEPT ![r] = NoCall]
    /\ UNCHANGED <<clock, limiter, cache, Requests, Latency, burst, prev, vIn, vOut, keyVars, ingestVars, batchVars, lifeVars, limiterVars, timerVars>>

\* Cache.InterceptorFunc for one call, its handler succeeding or failing: a
\* hit returns the cached response, a miss stores the handler's response if
\* there is one.
CacheCall ==
    /\ Len(uses) < MaxUses
    /\ \E req \in RecencyRequests, err \in {NoError, StoreError} :
         LET key == generateCacheKey(QueryMethod, req)
             g == CacheGet(cache, key)
         IN  /\ g.ok \/ err = NoError
             /\ cache' = IF g.ok THEN g.cache ELSE CacheAdd(g.cache, key, KeyResponse)
             /\ uses' = Append(uses, key)
    /\ UNCHANGED <<clock, limiter, Requests, Latency, calls, burst, prev,
                   validateVars, kIn, kOut, ingestVars, batchVars, lifeVars, limiterVars, timerVars>>

\* Validate is called for a request as QueryTimeSeries calls it.
ValidateRequest ==
    /\ vOut = Pending
    /\ vOut' = Validate(AsTime(vIn.Start), AsTime(vIn.End), vIn.Window, vIn.Aggregation)
    /\ UNCHANGED <<clock, limiter, cache, Requests, Latency, calls, burst, prev, vIn, keyVars, ingestVars, batchVars, lifeVars, limiterVars, timerVars>>

(* --------------------------- specifications ---------------------------- *)

\* The calls of one burst: any requests, no time passing between them.
Next ==
    \/ \E r \in Goroutines : Serve(r, TimeSeriesRequests)
    \/ \E r \in Goroutines : ContextMiddleware(r)
    \/ \E r \in Goroutines : RateLimitingInterceptor(r)
    \/ \E r \in Goroutines : LoggingInterceptor(r)
    \/ \E r \in Goroutines : MetricsInterceptor(r)
    \/ \E r \in Goroutines : CacheInterceptor(r)
    \/ \E r \in Goroutines : QueryTimeSeries(r)
    \/ \E r \in Goroutines : CacheInterceptorReturn(r)
    \/ \E r \in Goroutines : MetricsInterceptorReturn(r)
    \/ \E r \in Goroutines : LoggingInterceptorReturn(r)
    \/ \E r \in Goroutines : TailReturn(r)
    \/ \E r \in Goroutines : Respond(r)

Spec == Init /\ [][Next]_vars

\* One request repeated while time passes.
NextLimiter ==
    \/ \E r \in Goroutines : Serve(r, {RepeatedRequest})
    \/ \E r \in Goroutines : ContextMiddleware(r)
    \/ \E r \in Goroutines : RateLimitingInterceptor(r)
    \/ \E r \in Goroutines : LoggingInterceptor(r)
    \/ \E r \in Goroutines : MetricsInterceptor(r)
    \/ \E r \in Goroutines : CacheInterceptor(r)
    \/ \E r \in Goroutines : QueryTimeSeries(r)
    \/ \E r \in Goroutines : CacheInterceptorReturn(r)
    \/ \E r \in Goroutines : MetricsInterceptorReturn(r)
    \/ \E r \in Goroutines : LoggingInterceptorReturn(r)
    \/ \E r \in Goroutines : TailReturn(r)
    \/ \E r \in Goroutines : Respond(r)
    \/ Tick

SpecLimiter == Init /\ [][NextLimiter]_vars

\* Validate on every request of ValidateRequests.
InitValidate ==
    /\ clock = 0
    /\ admits = NoAdmits
    /\ cron = NewCron
    /\ limiter = NewLimiter
    /\ cache = <<>>
    /\ Requests = [m \in Methods |-> 0]
    /\ Latency = [m \in Methods |-> 0]
    /\ calls = [r \in Goroutines |-> NoCall]
    /\ burst = NoBurst
    /\ prev = NoPrev
    /\ vIn \in ValidateRequests
    /\ vOut = Pending
    /\ kIn = NoKeyIn
    /\ kOut = NoKeyOut
    /\ uses = <<>>
    /\ store = <<>>
    /\ boot = NoBoot
    /\ fetches = <<>>
    /\ tx = NoTx
    /\ agg = NoAgg
    /\ proc = NoProc

NextValidate == ValidateRequest

SpecValidate == InitValidate /\ [][NextValidate]_vars

\* Two calls made one after the other of one empty Cache, for every two
\* methods and requests.
InitKey ==
    /\ clock = 0
    /\ admits = NoAdmits
    /\ cron = NewCron
    /\ limiter = NewLimiter
    /\ cache = <<>>
    /\ Requests = [m \in Methods |-> 0]
    /\ Latency = [m \in Methods |-> 0]
    /\ calls = [r \in Goroutines |-> NoCall]
    /\ burst = NoBurst
    /\ prev = NoPrev
    /\ vIn = NoValidate
    /\ vOut = Pending
    /\ kIn \in [m1 : KeyMethods, r1 : KeyRequests, m2 : KeyMethods, r2 : KeyRequests]
    /\ kOut = [NoKeyOut EXCEPT !.pc = "first"]
    /\ uses = <<>>
    /\ store = <<>>
    /\ boot = NoBoot
    /\ fetches = <<>>
    /\ tx = NoTx
    /\ agg = NoAgg
    /\ proc = NoProc

NextKey == CacheFirstCall \/ CacheSecondCall

SpecKey == InitKey /\ [][NextKey]_vars

\* BootstrapHistoricalData alone, on an empty table.
NextBootstrap == BootstrapHistoricalData \/ BootstrapFallback

SpecBootstrap == Init /\ [][NextBootstrap]_vars

\* The ingestion: BootstrapHistoricalData and the scheduler's firings, which
\* main starts side by side.
NextIngest == BootstrapHistoricalData \/ BootstrapFallback \/ collectData

SpecIngest == Init /\ [][NextIngest]_vars

\* Batch inserts one after the other, and queries at any moment of them.
NextBatch ==
    \/ BatchInsertBegin
    \/ BatchInsertExec
    \/ BatchInsertCommit
    \/ BatchInsertReturn
    \/ QueryTimeSeriesData

SpecBatch == Init /\ [][NextBatch]_vars

\* The process from the start of main to its exit: the backfill, the
\* scheduler, the server and handleShutdown side by side, signals at any
\* moment after handleShutdown asked for them.
NextLifecycle ==
    \/ mainStart
    \/ proc.bootG = "running" /\ BootstrapHistoricalData /\ FetchInProcess
    \/ proc.bootG = "running" /\ BootstrapFallback /\ FetchInProcess
    \/ bootstrapGoroutine
    \/ SchedulerStart
    \/ cronTick(MaxTicks)
    \/ JobsInFlight > 0 /\ collectData /\ FetchInProcess
    \/ Serving
    \/ ServeError
    \/ ServeReturn
    \/ QueryAccepted
    \/ QueryAnswered
    \/ handleShutdownNotify
    \/ Signal
    \/ handleShutdown
    \/ GracefulStop
    \/ GracefulStopReturn
    \/ SchedulerStop
    \/ Close
    \/ mainBootstrapCompleted
    \/ mainFatal
    \/ mainServiceError
    \/ mainReturn

SpecLifecycle == Init /\ [][NextLifecycle]_vars

\* The process under the Go scheduler, which runs every goroutine that can
\* take a step; signals and listener errors come when they come.
FairLifecycle ==
    /\ WF_vars(mainStart)
    /\ WF_vars(proc.bootG = "running" /\ BootstrapHistoricalData /\ FetchInProcess)
    /\ WF_vars(proc.bootG = "running" /\ BootstrapFallback /\ FetchInProcess)
    /\ WF_vars(bootstrapGoroutine)
    /\ WF_vars(SchedulerStart)
    /\ WF_vars(JobsInFlight > 0 /\ collectData /\ FetchInProcess)
    /\ WF_vars(Serving)
    /\ WF_vars(ServeReturn)
    /\ WF_vars(QueryAnswered)
    /\ WF_vars(handleShutdownNotify)
    /\ WF_vars(handleShutdown)
    /\ WF_vars(GracefulStop)
    /\ WF_vars(GracefulStopReturn)
    /\ WF_vars(SchedulerStop)
    /\ WF_vars(Close)
    /\ WF_vars(mainBootstrapCompleted)
    /\ WF_vars(mainFatal)
    /\ WF_vars(mainServiceError)
    /\ WF_vars(mainReturn)

SpecLifecycleFair == Init /\ [][NextLifecycle]_vars /\ FairLifecycle

\* main started with every ServerConfig the flags can give.
InitSetup ==
    /\ clock = 0
    /\ admits = NoAdmits
    /\ cron = NewCron
    /\ limiter = NewLimiter
    /\ cache = <<>>
    /\ Requests = [m \in Methods |-> 0]
    /\ Latency = [m \in Methods |-> 0]
    /\ calls = [r \in Goroutines |-> NoCall]
    /\ burst = NoBurst
    /\ prev = NoPrev
    /\ vIn = NoValidate
    /\ vOut = Pending
    /\ kIn = NoKeyIn
    /\ kOut = NoKeyOut
    /\ uses = <<>>
    /\ store = <<>>
    /\ boot = NoBoot
    /\ fetches = <<>>
    /\ tx = NoTx
    /\ agg = NoAgg
    /\ proc \in {[NoProc EXCEPT !.flags = c] : c \in ServerConfigs}

NextSetup == mainStart

SpecSetup == InitSetup /\ [][NextSetup]_vars

\* The request {start: T - 24h, end: T, window: "1h", aggregation: "AVG"} made
\* of a table that holds one point every 5 minutes over that span, the point
\* at T itself there or not.
InitAggregate ==
    /\ clock = 0
    /\ admits = NoAdmits
    /\ cron = NewCron
    /\ limiter = NewLimiter
    /\ cache = <<>>
    /\ Requests = [m \in Methods |-> 0]
    /\ Latency = [m \in Methods |-> 0]
    /\ calls = [r \in Goroutines |-> NoCall]
    /\ burst = NoBurst
    /\ prev = NoPrev
    /\ vIn = NoValidate
    /\ vOut = Pending
    /\ kIn = NoKeyIn
    /\ kOut = NoKeyOut
    /\ uses = <<>>
    /\ boot = NoBoot
    /\ fetches = <<>>
    /\ tx = NoTx
    /\ proc = NoProc
    /\ \E T \in AggregateNows, k \in {1, 3, 7} :
         \E last \in {T - 5, T} :
            /\ store = Prepopulated(T, last, k)
            /\ agg = [NoAgg EXCEPT !.pc = "request", !.start = T - 24 * Hour,
                                   !.end = T, !.window = "1h",
                                   !.aggregation = "AVG"]

NextAggregate == Query

SpecAggregate == InitAggregate /\ [][NextAggregate]_vars

\* Calls made side by side, each in its goroutine, of the cache stage of the
\* one server, the stage called as its test calls it.
InitConcurrent ==
    /\ clock = 0
    /\ admits = NoAdmits
    /\ cron = NewCron
    /\ limiter = NewLimiter
    /\ cache = <<>>
    /\ Requests = [m \in Methods |-> 0]
    /\ Latency = [m \in Methods |-> 0]
    /\ calls = [r \in ConcurrentGoroutines |-> NoCall]
    /\ burst = NoBurst
    /\ prev = NoPrev
    /\ vIn = NoValidate
    /\ vOut = Pending
    /\ kIn = NoKeyIn
    /\ kOut = NoKeyOut
    /\ uses = <<>>
    /\ store = <<>>
    /\ boot = NoBoot
    /\ fetches = <<>>
    /\ tx = NoTx
    /\ agg = NoAgg
    /\ proc = NoProc

NextConcurrent ==
    \/ \E r \in ConcurrentGoroutines : CacheStageCall(r)
    \/ \E r \in ConcurrentGoroutines : CacheInterceptor(r)
    \/ \E r \in ConcurrentGoroutines : QueryTimeSeries(r)
    \/ \E r \in ConcurrentGoroutines : CacheInterceptorReturn(r)
    \/ \E r \in ConcurrentGoroutines : CacheStageReturned(r)

SpecConcurrent == InitConcurrent /\ [][NextConcurrent]_vars

\* The upstream answers as the process meets them, time.Now() the first of
\* IngestNows.
FetchAnswered ==
    /\ fetches'[Len(fetches')].answer \in ProcessAnswers
    /\ fetches'[Len(fetches')].end = TimeUnix(3 * 365 * 24 * Hour + 1)

\* A FetchData that inserts the points the upstream answered with.
FetchInserted == FetchAnswered /\ store' # store

\* Calls of the cache stage side by side, answered from the table, while the
\* backfill and the scheduler's firings insert into it.
NextStale ==
    \/ \E r \in ConcurrentGoroutines : CacheStageCall(r)
    \/ \E r \in ConcurrentGoroutines : CacheInterceptor(r)
    \/ \E r \in ConcurrentGoroutines : QueryTimeSeriesOfStore(r)
    \/ \E r \in ConcurrentGoroutines : CacheInterceptorReturn(r)
    \/ \E r \in ConcurrentGoroutines : CacheStageReturned(r)
    \/ BootstrapHistoricalData /\ FetchInserted
    \/ collectData /\ FetchInserted

SpecStale == InitConcurrent /\ [][NextStale]_vars

\* RateLimitingInterceptor for one call, whatever the handler does afterwards:
\* limiter.Allow() at the current instant.
RateLimitingCall ==
    /\ LET a == Allow(limiter, clock)
       IN  /\ limiter' = a.lim
           /\ burst' = [burst EXCEPT !.calls = Min(@ + 1, Burst + 1),
                                     !.admitted = IF a.ok THEN @ + 1 ELSE @,
                                     !.lastCode = IF a.ok THEN "OK"
                                                  ELSE "ResourceExhausted"]
           /\ admits' = IF a.ok
                        THEN [admits EXCEPT !.total = @ + 1,
                                            !.count = IF admits.open THEN @ + 1 ELSE @]
                        ELSE admits
    /\ UNCHANGED <<clock, cache, Requests, Latency, calls, prev, validateVars,
                   keyVars, ingestVars, batchVars, lifeVars, timerVars>>

\* Time passes: one tick of the limiter's clock, up to the time an empty
\* bucket takes to fill and MaxClock ticks more.
Elapse ==
    /\ clock < IdleTicks + MaxClock
    /\ clock' = clock + 1
    /\ burst' = [full |-> Advance(limiter, clock + 1) = Burst,
                 calls |-> 0, admitted |-> 0, lastCode |-> "OK"]
    /\ UNCHANGED <<limiter, cache, Requests, Latency, calls, prev, validateVars,
                   keyVars, ingestVars, batchVars, lifeVars, limiterVars, timerVars>>

\* An interval of time starts at the current instant.
IntervalStart ==
    /\ ~admits.open
    /\ admits' = [admits EXCEPT !.open = TRUE, !.start = clock, !.count = 0]
    /\ UNCHANGED <<pipelineVars, validateVars, keyVars, ingestVars, batchVars,
                   lifeVars, timerVars>>

\* Calls of the one shared limiter while time passes.
NextBucket ==
    \/ RateLimitingCall
    \/ Elapse
    \/ IntervalStart

SpecBucket == Init /\ [][NextBucket]_vars

\* A firing with no timeout at all.
JobDeadline_none(started) == started + 2 * Interval

\* The instant the contexts of a firing launched at `started` expire: the
\* firing's, or before it the one FetchData derives from it.
JobDeadline(started) == started + Min(FiringTimeout, FetchTimeout)

\* The cron's run loop at a tick: collectData launched in a goroutine of its
\* own, whatever jobs are in flight, and the next tick an interval later.
cronFire ==
    /\ cron.now = cron.next
    /\ cron.fired < MaxFirings
    /\ cron' = [cron EXCEPT !.next = cron.now + Interval,
                            !.fired = @ + 1,
                            !.jobs = (cron.now :> "request") @@ @]
    /\ UNCHANGED <<pipelineVars, validateVars, keyVars, ingestVars, batchVars,
                   lifeVars, limiterVars>>

\* FetchData of a job in flight has the upstream's answer and goes on to the
\* batch insert, under the same context.
jobInsert ==
    /\ \E j \in DOMAIN cron.jobs :
         /\ cron.jobs[j] = "request"
         /\ cron' = [cron EXCEPT !.jobs = [@ EXCEPT ![j] = "insert"]]
    /\ UNCHANGED <<pipelineVars, validateVars, keyVars, ingestVars, batchVars,
                   lifeVars, limiterVars>>

\* A job in flight returns: the request failed or timed out, or the insert is
\* over or failed or timed out.
jobReturn ==
    /\ \E j \in DOMAIN cron.jobs :
         cron' = [cron EXCEPT !.jobs = [k \in DOMAIN @ \ {j} |-> @[k]]]
    /\ UNCHANGED <<pipelineVars, validateVars, keyVars, ingestVars, batchVars,
                   lifeVars, limiterVars>>

\* Time passes, not beyond the cron's next tick nor beyond the instant the
\* context of a job in flight expires: the request and the statements of the
\* insert return when it does.
TimePasses ==
    /\ cron.now + TimeStep <= cron.next
    /\ \A j \in DOMAIN cron.jobs : cron.now + TimeStep <= JobDeadline(j)
    /\ cron' = [cron EXCEPT !.now = @ + TimeStep]
    /\ UNCHANGED <<pipelineVars, validateVars, keyVars, ingestVars, batchVars,
                   lifeVars, limiterVars>>

\* The started cron and its jobs under the clock.
NextTimed ==
    \/ cronFire
    \/ jobInsert
    \/ jobReturn
    \/ TimePasses

SpecTimed == Init /\ [][NextTimed]_vars

\* Calls made one after the other of one empty Cache.
NextRecency == CacheCall

SpecRecency == Init /\ [][NextRecency]_vars

\* SetupServer called again and again in one process, with any config.
NextSetupCalls == SetupServerCall

SpecSetupCalls == Init /\ [][NextSetupCalls]_vars

\* The scheduler in the process: the goroutine that starts it, the cron and
\* its jobs, and handleShutdown, which stops it; the server is not serving.
NextScheduler ==
    \/ mainStart
    \/ SchedulerStart
    \/ cronTick(MaxFirings)
    \/ JobsInFlight > 0 /\ collectData /\ FetchInProcess
    \/ handleShutdownNotify
    \/ Signal
    \/ handleShutdown
    \/ GracefulStop
    \/ GracefulStopReturn
    \/ SchedulerStop
    \/ Close

SpecScheduler == Init /\ [][NextScheduler]_vars

(* ------------------------------- claims -------------------------------- *)

KeyOf(c) == generateCacheKey(c.method, c.req)

\* C1: Cache idempotence. A request that enters the cache stage after the same
\* request (same method, same fields) was answered by a successful downstream
\* call and cached, with no insertion and so no eviction in between, gets the
\* response the first call got, and the handler ran once for the two calls
\* together: once for the first, never for the second.
CacheIdempotence ==
    \A r \in Goroutines :
        calls[r].after.valid =>
            /\ calls[r].resp = calls[r].after.resp
            /\ calls[r].err = NoError
            /\ calls[r].after.handlerCalls + calls[r].handlerCalls = 1
            /\ calls[r].storeCalls = <<>>

\* A repeated request has been answered from the cache with a response that has
\* points, and the handler ran for the first call only.
CacheIdempotenceWitness ==
    \E r \in Goroutines :
        /\ calls[r].pc = "done"
        /\ calls[r].after.valid
        /\ calls[r].after.handlerCalls = 1
        /\ calls[r].handlerCalls = 0
        /\ calls[r].resp.data # <<>>

\* C2: The cache never stores errors. When the handler hands an error back to
\* the cache stage, the stage returns that error with a nil response, and a
\* fingerprint that was a miss before the stage returned is a miss after it.
CacheNeverStoresErrors ==
    [][\A r \in Goroutines :
         (/\ Returning(r, "CacheInterceptor")
          /\ calls[r].err # NoError
          /\ calls'[r] # calls[r])
         => /\ calls'[r].resp = NilResponse
            /\ calls'[r].err = calls[r].err
            /\ ~CacheGet(cache, KeyOf(calls[r])).ok
                  => ~CacheGet(cache', KeyOf(calls[r])).ok]_vars

\* A call whose repository query failed is through the cache stage, and its
\* fingerprint is not in the cache.
CacheNeverStoresErrorsWitness ==
    \E r \in Goroutines :
        /\ calls[r].pc = "done"
        /\ calls[r].handlerCalls = 1
        /\ calls[r].err.code = "Internal"
        /\ calls[r].resp = NilResponse
        /\ ~CacheGet(cache, KeyOf(calls[r])).ok

\* C3: Rate limiter burst. From a full bucket, of the calls the one shared
\* limiter sees with no time elapsing the first Burst (10) are admitted and
\* every later one, the 11th included, is rejected with ResourceExhausted.
RateLimiterBurst ==
    burst.full =>
        /\ burst.admitted = Min(burst.calls, 10)
        /\ burst.calls > 10 => burst.lastCode = "ResourceExhausted"

\* The limiter has seen 11 calls at one instant, starting from a full bucket.
RateLimiterBurstWitness ==
    /\ burst.full
    /\ burst.calls = 11
    /\ burst.admitted = 10
    /\ \E r \in Goroutines : calls[r].err.code = "ResourceExhausted"

Rejected(c) == c.err.code = "ResourceExhausted"

\* C4: A call the rate limiter rejects returns ResourceExhausted at once and
\* enters no later stage: no logging, metrics or cache stage, no handler, no
\* repository query; and no step of it changes the cache or the metrics.
RejectedEntersNoStage ==
    /\ [](\A r \in Goroutines :
            Rejected(calls[r]) =>
                /\ calls[r].resp = NilResponse
                /\ calls[r].handlerCalls = 0
                /\ calls[r].storeCalls = <<>>
                /\ \A i \in 1..Len(calls[r].trace) :
                     calls[r].trace[i][2] \in {"ContextMiddleware", "RateLimitingInterceptor"})
    /\ [][\A r \in Goroutines :
            (calls'[r] # calls[r] /\ Rejected(calls'[r]))
            => /\ cache' = cache
               /\ Requests' = Requests
               /\ Latency' = Latency]_vars

\* A rejected call has returned to the client while the cache holds an entry
\* and the metrics have counted calls.
RejectedEntersNoStageWitness ==
    \E r \in Goroutines :
        /\ calls[r].pc = "done"
        /\ Rejected(calls[r])
        /\ cache # <<>>
        /\ Requests[QueryMethod] > 0

\* The stages of a call that is admitted and misses the cache, as they are
\* entered and left, with the request id each stage finds in its context.
FullTrace(id) ==
    << <<"enter", "ContextMiddleware", 0>>,
       <<"enter", "RateLimitingInterceptor", id>>,
       <<"enter", "LoggingInterceptor", id>>,
       <<"enter", "MetricsInterceptor", id>>,
       <<"enter", "CacheInterceptor", id>>,
       <<"enter", "QueryTimeSeries", id>>,
       <<"exit", "QueryTimeSeries">>,
       <<"exit", "CacheInterceptor">>,
       <<"exit", "MetricsInterceptor">>,
       <<"exit", "LoggingInterceptor">>,
       <<"exit", "RateLimitingInterceptor">>,
       <<"exit", "ContextMiddleware">> >>

\* C5: Interceptor order. A call that is admitted and misses the cache enters
\* request-id tagging, rate limiting, logging, metrics, caching and the handler
\* once each, in this order, and leaves them in the reverse order; every stage
\* after the tagging finds in its context the request id the tagging put there.
InterceptorOrder ==
    \A r \in Goroutines :
        calls[r].handlerCalls > 0 =>
            /\ calls[r].handlerCalls = 1
            /\ calls[r].ctx.requestID # 0
            /\ Len(calls[r].trace) <= 12
            /\ calls[r].trace =
                 SubSeq(FullTrace(calls[r].ctx.requestID), 1, Len(calls[r].trace))
            /\ calls[r].pc = "done" => Len(calls[r].trace) = 12

\* A call that ran the handler has gone through all stages and back.
InterceptorOrderWitness ==
    \E r \in Goroutines :
        /\ calls[r].pc = "done"
        /\ calls[r].handlerCalls = 1
        /\ calls[r].err = NoError

\* The handler has just returned to the innermost interceptor.
HandlerReturned(c) ==
    /\ c.pc = "return"
    /\ c.depth = Len(ServerInterceptors)
    /\ c.handlerCalls = 1

\* C6: QueryTimeSeries returns InvalidArgument with the validator's message and
\* a nil response iff validation fails; Internal wrapping the store's error and
\* a nil response iff validation passes and the repository query fails; and a
\* response with no error otherwise.
QueryOutcomeClassification ==
    \A r \in Goroutines :
        HandlerReturned(calls[r]) =>
            LET c == calls[r]
                v == Validate(AsTime(c.req.Start), AsTime(c.req.End),
                              c.req.Window, c.req.Aggregation)
                queried == Len(c.storeCalls) = 1
                storeFailed == queried /\ c.storeCalls[1].err # NoError
            IN  /\ Len(c.storeCalls) <= 1
                /\ c.err.code = "InvalidArgument" <=> v # NoError
                /\ v # NoError =>
                     /\ c.err.msg = v.msg
                     /\ c.resp = NilResponse
                     /\ ~queried
                /\ c.err.code = "Internal" <=> (v = NoError /\ storeFailed)
                /\ c.err.code = "Internal" =>
                     /\ c.err.msg = "query failed: " \o c.storeCalls[1].err.msg
                     /\ c.resp = NilResponse
                /\ (v = NoError /\ ~storeFailed) =>
                     /\ c.err = NoError
                     /\ ~c.resp.isNil
                     /\ queried

\* The handler has returned each of the three outcomes: this one an Internal
\* error for a valid request whose repository query failed.
QueryOutcomeClassificationWitness ==
    \E r \in Goroutines :
        /\ HandlerReturned(calls[r])
        /\ calls[r].err.code = "Internal"
        /\ calls[r].storeCalls # <<>>

\* C7: The store is only queried with a valid Query. Every repository query
\* carries the request's start, end, window and aggregation, with start < end,
\* end - start at most two years, an enumerated window and aggregation and both
\* timestamps set; a request failing validation or admission makes no query.
StoreOnlyValidQuery ==
    \A r \in Goroutines :
        LET c == calls[r]
        IN  /\ \A i \in 1..Len(c.storeCalls) :
                 LET q == c.storeCalls[i]
                 IN  /\ ~c.req.Start.isNil /\ q.start = c.req.Start.seconds
                     /\ ~c.req.End.isNil /\ q.end = c.req.End.seconds
                     /\ q.window = c.req.Window
                     /\ q.aggregation = c.req.Aggregation
                     /\ q.start < q.end
                     /\ q.end - q.start <= 2 * 365
                     /\ q.window \in {"1m", "5m", "1h", "1d"}
                     /\ q.aggregation \in {"MIN", "MAX", "AVG", "SUM"}
                     /\ q.start \notin {ZeroTime, UnixEpoch}
                     /\ q.end \notin {ZeroTime, UnixEpoch}
            /\ c.err.code \in {"InvalidArgument", "ResourceExhausted"}
                 => c.storeCalls = <<>>

\* Whether a timestamp of a request counts as unset.
Unset(ts) == ts.isNil \/ ts.seconds = ZeroTime \/ ts.seconds = UnixEpoch

Validated == vOut # Pending

\* C8: For all start and end that are both set with start >= end, start equal
\* to end included, Validate returns "start time must be before end time",
\* whatever the window and the aggregation.
StartNotBeforeEndRejected ==
    (/\ Validated
     /\ ~Unset(vIn.Start) /\ ~Unset(vIn.End)
     /\ vIn.Start.seconds >= vIn.End.seconds)
    => vOut = Errorf("start time must be before end time")

\* C9: Validate returns "missing timestamp" whenever start or end is unset (the
\* zero time, the Unix epoch, or absent from the request, which reads as the
\* epoch), whatever the window and the aggregation.
MissingTimestampRejected ==
    (Validated /\ (Unset(vIn.Start) \/ Unset(vIn.End)))
    => vOut = Errorf("missing timestamp")

\* Validate has been called for the empty request.
MissingTimestampRejectedWitness ==
    /\ Validated
    /\ vIn = [Start |-> NilTimestamp, End |-> NilTimestamp,
              Window |-> "", Aggregation |-> ""]
    /\ vOut.msg = "missing timestamp"

\* The rules of Validate a request violates, by their number in the fixed order.
ViolatedRules(req) ==
    {n \in 1..5 :
        \/ n = 1 /\ (Unset(req.Start) \/ Unset(req.End))
        \/ n = 2 /\ ~(AsTime(req.Start) < AsTime(req.End))
        \/ n = 3 /\ AsTime(req.End) - AsTime(req.Start) > 2 * 365
        \/ n = 4 /\ req.Window \notin {"1m", "5m", "1h", "1d"}
        \/ n = 5 /\ req.Aggregation \notin {"MIN", "MAX", "AVG", "SUM"}}

\* The error of rule n for a request.
RuleError(n, req) ==
    CASE n = 1 -> Errorf("missing timestamp")
      [] n = 2 -> Errorf("start time must be before end time")
      [] n = 3 -> Errorf("time range exceeds maximum allowed")
      [] n = 4 -> Errorf("invalid window: " \o req.Window)
      [] n = 5 -> IF req.Aggregation = ""
                  THEN Errorf("invalid aggregation")
                  ELSE Errorf("invalid aggregation: " \o req.Aggregation)

\* C10: Validation precedence. For a request that violates several rules at
\* once, Validate returns the error of the earliest violated rule in the order
\* missing timestamp, start not before end, range too large, invalid window,
\* invalid aggregation.
ValidationPrecedence ==
    (Validated /\ Cardinality(ViolatedRules(vIn)) >= 2)
    => LET first == CHOOSE n \in ViolatedRules(vIn) :
                        \A m \in ViolatedRules(vIn) : n <= m
       IN  vOut = RuleError(first, vIn)

\* Both timestamps of the request are set and start is before end.
SetAndOrdered(req) ==
    /\ ~Unset(req.Start) /\ ~Unset(req.End)
    /\ req.Start.seconds < req.End.seconds

RangeOf(req) == AsTime(req.End) - AsTime(req.Start)

\* C11: For all start and end that are both set, with start before end and
\* end - start greater than two years (2 * 365 days), Validate returns "time
\* range exceeds maximum allowed"; and no request whose range is at most two
\* years gets this error.
RangeExceedsMaximumRejected ==
    Validated =>
        /\ (SetAndOrdered(vIn) /\ RangeOf(vIn) > 2 * 365)
              => vOut = Errorf("time range exceeds maximum allowed")
        /\ RangeOf(vIn) <= 2 * 365
              => vOut.msg # "time range exceeds maximum allowed"

\* Validate has rejected a range one day longer than two years, and one longer
\* than a Duration can hold.
RangeExceedsMaximumRejectedWitness ==
    /\ Validated
    /\ SetAndOrdered(vIn)
    /\ RangeOf(vIn) > MaxDuration
    /\ vIn.Window = "1h" /\ vIn.Aggregation = "AVG"
    /\ vOut.msg = "time range exceeds maximum allowed"

\* Validate has accepted a range of exactly two years.
RangeAtMaximumAccepted ==
    /\ Validated
    /\ SetAndOrdered(vIn)
    /\ RangeOf(vIn) = 2 * 365
    /\ vOut = NoError

\* C12: For every window other than 1m, 5m, 1h and 1d, with both timestamps set,
\* start before end and a range of at most two years, Validate returns "invalid
\* window: " followed by the window, which for the empty window is "invalid
\* window: " and nothing more.
InvalidWindowRejected ==
    (/\ Validated
     /\ SetAndOrdered(vIn)
     /\ RangeOf(vIn) <= 2 * 365
     /\ vIn.Window \notin {"1m", "5m", "1h", "1d"})
    => /\ vOut = Errorf("invalid window: " \o vIn.Window)
       /\ vIn.Window = "" => vOut.msg = "invalid window: "

\* Validate has rejected the window 2h of a request that is valid otherwise.
InvalidWindowRejectedWitness ==
    /\ Validated
    /\ SetAndOrdered(vIn)
    /\ RangeOf(vIn) <= 2 * 365
    /\ vIn.Window = "2h"
    /\ vIn.Aggregation = "AVG"
    /\ vOut.msg = "invalid window: 2h"

\* C13: For every aggregation other than MIN, MAX, AVG and SUM, with both
\* timestamps set, start before end, a range of at most two years and an
\* enumerated window, Validate returns "invalid aggregation: " followed by the
\* aggregation, except for the empty aggregation, where it returns "invalid
\* aggregation" with no colon.
InvalidAggregationRejected ==
    (/\ Validated
     /\ SetAndOrdered(vIn)
     /\ RangeOf(vIn) <= 2 * 365
     /\ vIn.Window \in {"1m", "5m", "1h", "1d"}
     /\ vIn.Aggregation \notin {"MIN", "MAX", "AVG", "SUM"})
    => vOut = IF vIn.Aggregation = ""
              THEN Errorf("invalid aggregation")
              ELSE Errorf("invalid aggregation: " \o vIn.Aggregation)

\* Validate has rejected the empty aggregation of a request that is valid
\* otherwise.
InvalidAggregationRejectedWitness ==
    /\ Validated
    /\ SetAndOrdered(vIn)
    /\ RangeOf(vIn) <= 2 * 365
    /\ vIn.Window = "1h"
    /\ vIn.Aggregation = ""
    /\ vOut.msg = "invalid aggregation"

\* C14: On success QueryTimeSeries returns one point per row the repository
\* returned, in the repository's order, the i-th point with the time and the
\* value of the i-th row: no point added, dropped, reordered or merged.
ResponseMapsRows ==
    \A r \in Goroutines :
        (HandlerReturned(calls[r]) /\ calls[r].err = NoError) =>
            LET c == calls[r]
                rows == c.storeCalls[1].rows
            IN  /\ Len(c.storeCalls) = 1
                /\ ~c.resp.isNil
                /\ Len(c.resp.data) = Len(rows)
                /\ \A i \in 1..Len(rows) :
                     /\ ~c.resp.data[i].Time.isNil
                     /\ AsTime(c.resp.data[i].Time) = rows[i].Time
                     /\ c.resp.data[i].Value = rows[i].Value

\* The handler has returned the points of two rows with different times and
\* values.
ResponseMapsRowsWitness ==
    \E r \in Goroutines :
        /\ HandlerReturned(calls[r])
        /\ calls[r].err = NoError
        /\ Len(calls[r].storeCalls) = 1
        /\ Len(calls[r].storeCalls[1].rows) = 2
        /\ calls[r].storeCalls[1].rows[1] # calls[r].storeCalls[1].rows[2]
        /\ Len(calls[r].resp.data) = 2

\* C15: Cache capacity and eviction. The cache never holds more than CacheSize
\* entries; an insertion for a new fingerprint into a cache that holds CacheSize
\* entries makes exactly one of them leave and keeps the others; and a lookup of
\* the fingerprint that left, made before anything else is inserted, is a miss
\* that goes on to the handler.
CacheCapacityAndEviction ==
    /\ [](/\ Len(cache) <= CacheSize
          /\ Cardinality(CacheKeys(cache)) = Len(cache))
    /\ [][\A r \in Goroutines :
            (/\ Returning(r, "CacheInterceptor")
             /\ calls'[r] # calls[r]
             /\ calls[r].err = NoError
             /\ Len(cache) = CacheSize
             /\ KeyOf(calls[r]) \notin CacheKeys(cache))
            => /\ Len(cache') = CacheSize
               /\ KeyOf(calls[r]) \in CacheKeys(cache')
               /\ Cardinality(CacheKeys(cache) \ CacheKeys(cache')) = 1
               /\ \A k \in CacheKeys(cache) \ CacheKeys(cache') :
                    ~CacheGet(cache', k).ok]_vars
    /\ [][\A r \in Goroutines :
            (/\ AtStage(r, "CacheInterceptor")
             /\ calls'[r] # calls[r]
             /\ KeyOf(calls[r]) \in prev.evicted)
            => /\ calls'[r].pc = "enter"
               /\ calls'[r].depth = calls[r].depth + 1]_vars

\* The fingerprint the last insertion made leave a full cache has been looked
\* up again, and its call is at the handler.
CacheCapacityAndEvictionWitness ==
    \E r \in Goroutines :
        /\ AtStage(r, "QueryTimeSeries")
        /\ Len(cache) = CacheSize
        /\ KeyOf(calls[r]) \in prev.evicted
        /\ KeyOf(calls[r]) \notin CacheKeys(cache)

\* C16: Cache fingerprint. generateCacheKey gives two calls the same key if and
\* only if their methods are equal and their requests have the same start, end,
\* window and aggregation; so the second of two calls made of one cache gets
\* the response cached for the first if and only if it has the first's method
\* and request, and never when it differs from it in a field or in the method.
CacheFingerprint ==
    LET same == kIn.m1 = kIn.m2 /\ kIn.r1 = kIn.r2
    IN  /\ (generateCacheKey(kIn.m1, kIn.r1) = generateCacheKey(kIn.m2, kIn.r2))
              <=> same
        /\ kOut.pc = "done" =>
              /\ kOut.hit <=> same
              /\ kOut.hit => kOut.resp = KeyResponse
              /\ ~same => kOut.resp = NilResponse

\* The second call had the first one's request and another method, and missed.
CacheFingerprintWitness ==
    /\ kOut.pc = "done"
    /\ kIn.r1 = kIn.r2
    /\ kIn.m1 # kIn.m2
    /\ ~kOut.hit
    /\ Len(cache) = 2

\* The second call differed from the first in that its start is the zero
\* Timestamp where the first has none, and missed.
CacheFingerprintAbsentStart ==
    /\ kOut.pc = "done"
    /\ kIn.m1 = kIn.m2
    /\ kIn.r1.Start = NilTimestamp
    /\ kIn.r2 = [kIn.r1 EXCEPT !.Start = TimestampNew(0)]
    /\ ~kOut.hit

\* The rate limiter has admitted the call.
Admitted(c) ==
    /\ \E i \in 1..Len(c.trace) :
         c.trace[i][1] = "enter" /\ c.trace[i][2] = "RateLimitingInterceptor"
    /\ ~Rejected(c)

\* The metrics stage of the call has returned.
PastMetrics(c) ==
    \E i \in 1..Len(c.trace) : c.trace[i] = <<"exit", "MetricsInterceptor">>

\* The calls in flight that the limiter admitted and whose metrics stage has
\* not returned yet.
AdmittedUncounted(m) ==
    {r \in Goroutines :
        /\ calls[r].method = m
        /\ Admitted(calls[r])
        /\ ~PastMetrics(calls[r])}

MetricsCountFailedCall ==
    \E r \in Goroutines :
        /\ PastMetrics(calls[r])
        /\ calls[r].err.code = "Internal"
        /\ Requests[calls[r].method] = 1
        /\ Latency[calls[r].method] = 1

\* C18: Bootstrap retry policy. BootstrapHistoricalData makes at most two
\* fetches; the first is for the two years (2 * 365 days) up to now; a second
\* one, for the 24 hours up to the same end instant, is made if and only if the
\* first failed; it returns an error if and only if both fetches failed; and
\* once it has returned it makes no further fetch.
BootstrapRetryPolicy ==
    /\ [](LET n == Len(fetches)
          IN  /\ n <= 2
              /\ n >= 1 =>
                   /\ fetches[1].end = boot.endTime
                   /\ fetches[1].start = fetches[1].end - 2 * 365 * 24 * 60
              /\ n = 2 =>
                   /\ fetches[1].err # NoError
                   /\ fetches[2].end = fetches[1].end
                   /\ fetches[2].start = fetches[2].end - 24 * 60
              /\ boot.pc = "done" =>
                   /\ n >= 1
                   /\ n = 2 <=> fetches[1].err # NoError
                   /\ boot.err # NoError
                        <=> (n = 2 /\ fetches[1].err # NoError
                                   /\ fetches[2].err # NoError))
    /\ [][boot.pc = "done" => fetches' = fetches]_vars

\* Both fetches failed and BootstrapHistoricalData has returned an error.
BootstrapRetryPolicyWitness ==
    /\ boot.pc = "done"
    /\ Len(fetches) = 2
    /\ fetches[1].err # NoError
    /\ fetches[2].err # NoError
    /\ boot.err # NoError

\* The upstream failed: no response, a status that is not a success, or a body
\* that does not decode.
UpstreamFailed(a) ==
    \/ ~a.sent
    \/ a.status \notin 200..299
    \/ a.status = 200 /\ ~a.decodable

\* The upstream succeeded: status 200 and a payload that decodes.
UpstreamSucceeded(a) == a.sent /\ a.status = 200 /\ a.decodable

\* BootstrapHistoricalData has returned after the upstream failed for the
\* two-year window and succeeded for the 24-hour window.
FallbackCase ==
    /\ boot.pc = "done"
    /\ Len(fetches) = 2
    /\ UpstreamFailed(fetches[1].answer)
    /\ UpstreamSucceeded(fetches[2].answer)

\* C19 as stated: if the upstream fails for the two-year window and succeeds
\* for the 24-hour window, BootstrapHistoricalData returns success and the
\* table, empty at the start, holds exactly the points of the 24-hour window.
BootstrapFallbackAlwaysSucceeds ==
    FallbackCase =>
        /\ boot.err = NoError
        /\ store = DataPoints(fetches[2].answer.records)

\* C19, amended: if the upstream fails for the two-year window and succeeds for
\* the 24-hour window, then, when the batch insert of the 24-hour window's
\* points succeeds or there is no point to insert, BootstrapHistoricalData
\* returns success and the table, empty at the start, holds exactly the points
\* of the 24-hour window and nothing of the two-year attempt; when the batch
\* insert fails, it returns an error and the table is still empty.
BootstrapFallbackResult ==
    FallbackCase =>
        /\ fetches[1].inserts = <<>>
        /\ IF fetches[2].err = NoError
           THEN /\ boot.err = NoError
                /\ store = DataPoints(fetches[2].answer.records)
           ELSE /\ fetches[2].inserts = <<DataPoints(fetches[2].answer.records)>>
                /\ boot.err # NoError
                /\ store = <<>>

\* The fallback has put the two points of the 24-hour window in the table.
BootstrapFallbackResultWitness ==
    /\ FallbackCase
    /\ boot.err = NoError
    /\ Len(store) = 2
    /\ store = DataPoints(fetches[2].answer.records)

BatchInsertAtomic ==
    tx.batches > 0 =>
        /\ store \in {tx.before, tx.before \o tx.data}
        /\ tx.seen \in {tx.before, tx.before \o tx.data}
        /\ tx.pc = "exec" => (store = tx.before /\ tx.seen = tx.before)
        /\ tx.pc \in {"done", "idle"} =>
              /\ tx.err = NoError => store = tx.before \o tx.data
              /\ tx.err # NoError => (store = tx.before /\ tx.seen = tx.before)
              /\ \E o \in BatchInsertTimeSeriesData(tx.before, tx.data) :
                    o.store = store /\ (o.err = NoError <=> tx.err = NoError)

\* The second insert of a batch of two points has failed, after the first
\* batch was committed, and a query has read the table since.
BatchInsertAtomicWitness ==
    /\ tx.batches = 2
    /\ tx.pc = "done"
    /\ Len(tx.data) = 2
    /\ tx.err.msg = "failed to insert data point: context canceled"
    /\ tx.before # <<>>
    /\ store = tx.before
    /\ tx.seen = store

Logged(e) == \E i \in 1..Len(proc.log) : proc.log[i] = e

\* The steps of a shutdown, in the order they are to be made.
ShutdownSteps == <<"stopAccepting", "drained", "schedulerStopped", "repoClosed">>

\* C22: Shutdown order. Once shutdown is triggered, by a signal or by the
\* cancellation of the root context, the listener first stops accepting and
\* drains the calls in flight, only then is the scheduler stopped, only then
\* is the store closed; and the process does not exit before the store
\* connection is closed.
ShutdownOrder ==
    /\ Len(proc.log) <= Len(ShutdownSteps)
    /\ proc.log = SubSeq(ShutdownSteps, 1, Len(proc.log))
    /\ Logged("stopAccepting") => proc.srv \in {"stopping", "stopped"}
    /\ Logged("drained") => proc.inflight = 0
    /\ Logged("schedulerStopped") /\ ~Logged("repoClosed") => proc.repo = "open"
    /\ (proc.main = "exited" /\ proc.cause # "none") => proc.repo = "closed"

\* C23: Termination. After an interrupt or terminate signal is received, the
\* process, if the backfill has not ended it with a fatal error, eventually
\* is stopped and exits with code 0.
SignalTerminates ==
    (proc.signalled /\ proc.main = "running")
        ~> (proc.main = "exited" /\ proc.code = 0)

\* C24: A shutdown signal cancels the root context: after the signal is
\* received, the root context given to the scheduler and the backfill is
\* eventually cancelled, as long as the process lives.
SignalCancelsContext ==
    proc.signalled ~> (proc.ctx = "cancelled" \/ proc.main = "exited")

\* The fetches the backfill made.
BootstrapFetches == {i \in 1..Len(fetches) : fetches[i].caller = "bootstrap"}

\* Both fetches of the backfill failed and it returned its error.
BootstrapFailed ==
    /\ boot.pc = "done"
    /\ boot.err # NoError
    /\ Cardinality(BootstrapFetches) = 2
    /\ \A i \in BootstrapFetches : fetches[i].err # NoError

\* C25: A backfill failure with no fallback success is fatal at startup.
\* When the two-year fetch and the 24-hour fallback both fail, the process
\* never enters Running, nothing is put on doneChan, and the process exits,
\* with a code other than 0.
BootstrapFailureFatal ==
    /\ [](BootstrapFailed =>
            /\ proc.main # "running"
            /\ proc.doneChan = 0
            /\ proc.main = "exited" => proc.code # 0)
    /\ (BootstrapFailed ~> (proc.main = "exited" /\ proc.code # 0))

BootstrapFailureFatalWitness ==
    /\ BootstrapFailed
    /\ proc.bootG = "returned"
    /\ proc.main = "exited"
    /\ proc.code = 1
    /\ proc.srv = "serving"

\* C26: A listener error while Running is fatal. When Serve returns an error
\* after the backfill has completed, the process shuts down and exits with a
\* code other than 0; exit code 0 comes only of a shutdown that a signal
\* started.
ListenerErrorFatal ==
    proc.main = "exited" =>
        /\ proc.serveErr = "running" => proc.code # 0
        /\ proc.code = 0 => (proc.signalled /\ proc.serveErr = "none")

\* The firings whose fetch failed.
FailedFirings == {i \in Firings : fetches[i].err # NoError}

\* A job has just made a fetch that failed.
FiringFailed ==
    /\ Len(fetches') = Len(fetches) + 1
    /\ fetches'[Len(fetches')].caller = "collectData"
    /\ fetches'[Len(fetches')].err # NoError

\* C27: A failed scheduler firing is not fatal. When the fetch of a firing
\* fails the error is logged and nothing else: the cron runs as before,
\* nothing is sent on errChan, the root context is not cancelled and no
\* shutdown begins; and however many firings have failed, the running cron
\* launches its next job.
FailedFiringNonFatal ==
    /\ [][FiringFailed => proc' = proc]_vars
    /\ [](/\ Alive
          /\ proc.cronRunning
          /\ FailedFirings # {}
          /\ proc.ticks < MaxFirings
          => ENABLED cronTick(MaxFirings))

FailedFiringNonFatalWitness ==
    /\ Cardinality(Firings) = 2
    /\ FailedFirings = Firings
    /\ proc.cronRunning
    /\ proc.errChan = <<>>
    /\ proc.ctx = "active"
    /\ proc.cause = "none"
    /\ proc.main = "bootstrapWait"

\* C28: Scheduler stop. After Stop returns no new firing is started; a firing
\* in flight when Stop was called is not cancelled: Stop leaves it and its
\* context as they are.
SchedulerStopHalts ==
    /\ [][Logged("schedulerStopped") => proc'.ticks = proc.ticks]_vars
    /\ [][(~Logged("schedulerStopped") /\ Logged("schedulerStopped")')
            => (proc'.ctx = proc.ctx /\ JobsInFlight' = JobsInFlight)]_vars

\* The backfill has been started and has not returned.
BackfillInProgress == Alive /\ proc.bootG = "running" /\ boot.pc # "done"

\* C29: Query serving and the scheduler start side by side with the backfill,
\* neither waits for it. While the backfill is in progress the server
\* goroutine can call Serve, the serving server can take a call and answer
\* it from the table as it is, the scheduler can be started, and the running
\* cron can launch its job and the job make its fetch.
ServingAlongsideBackfill ==
    BackfillInProgress =>
        /\ proc.srvG # "none" /\ proc.schedG # "none"
        /\ proc.srvG = "start" => ENABLED Serving
        /\ (proc.srv = "serving" /\ proc.srvG = "serving"
              /\ proc.inflight < MaxInFlight) => ENABLED QueryAccepted
        /\ proc.inflight > 0 => ENABLED QueryAnswered
        /\ proc.schedG = "start" => ENABLED SchedulerStart
        /\ (proc.cronRunning /\ proc.ticks < MaxTicks) => ENABLED cronTick(MaxTicks)
        /\ JobsInFlight > 0 => ENABLED (collectData /\ FetchInProcess)

\* A query was answered from the empty table, and a firing made its fetch,
\* with the backfill still in progress.
ServingAlongsideBackfillWitness ==
    /\ BackfillInProgress
    /\ proc.answered = "duringBackfillEmpty"
    /\ Firings # {}
    /\ BootstrapFetches = {}

\* C30: The cache capacity, the sustained rate and the burst in effect on the
\* server SetupServer returns are those of the ServerConfig handed to it,
\* which main makes of the flags; the flags' defaults are 1000, 5 and 10.
ServerConfigInEffect ==
    /\ NoProc.flags = [CacheSize |-> 1000, RateLimit |-> 5, RateLimitBurst |-> 10]
    /\ proc.main = "bootstrapWait" => proc.server = proc.flags

\* C31: SetupServer returns a server and no error for the default
\* configuration, and an error and no server for every configuration whose
\* CacheSize is not positive, whatever calls of SetupServer came before.
SetupServerChecksCacheSize ==
    proc.setups > 0 =>
        /\ proc.flags = DefaultServerConfig
              => (proc.setupErr = NoError /\ proc.server # NoServer)
        /\ proc.flags.CacheSize <= 0
              => (proc.setupErr # NoError /\ proc.server = NoServer)

\* The rows of the table from start on and before end that fall in a bucket.
HourOf(bucket, start, end) ==
    SelectSeq(store, LAMBDA r : /\ start <= r.Time /\ r.Time < end
                                /\ time_bucket("1h", r.Time) = bucket)

\* C32: End-to-end aggregation. Of a table holding one point every 5 minutes
\* over [T - 24h, T], the request {start: T - 24h, end: T, window: 1h,
\* aggregation: AVG} gets exactly 24 points, one per hour, strictly ascending
\* in time, each the arithmetic mean of its hour's points; the buckets are
\* those of the range with its start included and its end excluded, and an
\* empty bucket gives no point.
EndToEndAggregation ==
    agg.pc = "done" =>
        /\ Len(agg.rows) = 24
        /\ \A i \in 1..(Len(agg.rows) - 1) :
              AsTime(agg.rows[i + 1].Time) = AsTime(agg.rows[i].Time) + Hour
        /\ \A i \in 1..Len(agg.rows) :
              LET hour == HourOf(AsTime(agg.rows[i].Time), agg.start, agg.end)
              IN  /\ hour # <<>>
                  /\ agg.rows[i].Value
                       = Quotient(SumOf([j \in 1..Len(hour) |-> hour[j].Value]),
                                  Len(hour))
        /\ \A j \in 1..Len(store) :
              (agg.start <= store[j].Time /\ store[j].Time < agg.end)
              => \E i \in 1..Len(agg.rows) :
                    AsTime(agg.rows[i].Time) = time_bucket("1h", store[j].Time)

\* The place of the latest use of key, 0 when it was never used.
LastUse(key) ==
    IF \E i \in 1..Len(uses) : uses[i] = key
    THEN CHOOSE i \in 1..Len(uses) :
            uses[i] = key /\ \A j \in (i + 1)..Len(uses) : uses[j] # key
    ELSE 0

RecencyKey(t) ==
    generateCacheKey(QueryMethod,
                     [Start |-> TimestampNew(t), End |-> TimestampNew(CacheSize),
                      Window |-> "1h", Aggregation |-> "AVG"])

\* C33: LRU victim selection. When a new key is inserted into a full cache,
\* the entry that leaves is the one whose latest use, insertion or hit, is the
\* oldest, and no entry leaves otherwise; a hit renews an entry's recency: the
\* cache holds its keys in the order of their latest uses.
LRUVictim ==
    /\ [](\A i \in 1..Len(cache) : \A j \in 1..Len(cache) :
            i < j => LastUse(cache[i].key) > LastUse(cache[j].key))
    /\ [][\A k \in CacheKeys(cache) \ CacheKeys(cache') :
            /\ Len(cache) = CacheSize
            /\ uses'[Len(uses')] \notin CacheKeys(cache)
            /\ CacheKeys(cache) \ CacheKeys(cache') = {k}
            /\ \A other \in CacheKeys(cache) : LastUse(k) <= LastUse(other)]_vars

\* The cache filled by requests of which the first is then repeated, a hit,
\* and a new request made: the first is cached still, another has left.
LRUVictimWitness ==
    /\ Len(uses) = CacheSize + 2
    /\ \A t \in 1..CacheSize : uses[t] = RecencyKey(t)
    /\ uses[CacheSize + 1] = RecencyKey(1)
    /\ uses[CacheSize + 2] = RecencyKey(0)
    /\ RecencyKey(1) \in CacheKeys(cache)
    /\ RecencyKey(2) \notin CacheKeys(cache)
    /\ Len(cache) = CacheSize

\* The entries of a cache, each a key and its value.
CacheEntries(c) == {c[i] : i \in 1..Len(c)}

\* The call of goroutine r hands the cache stage a response its handler has
\* just returned without an error.
HandlerSucceeded(r) ==
    /\ Returning(r, "CacheInterceptor")
    /\ calls[r].err = NoError
    /\ calls[r].handlerCalls = 1
    /\ calls[r].trace[Len(calls[r].trace)] = <<"exit", "QueryTimeSeries">>

\* C34: Cache under concurrency. Under every interleaving of calls that go
\* through the cache stage side by side, identical calls that all miss before
\* any of them inserts included, the cache holds at most one entry a key and
\* at most CacheSize entries, and every value that enters the cache is the
\* response a successful run of the handler returned for a request of that
\* same key.
CacheUnderConcurrency ==
    /\ [](/\ Len(cache) <= CacheSize
          /\ \A i \in 1..Len(cache) : \A j \in 1..Len(cache) :
                cache[i].key = cache[j].key => i = j)
    /\ [][\A e \in CacheEntries(cache') \ CacheEntries(cache) :
            \E r \in DOMAIN calls :
               /\ HandlerSucceeded(r)
               /\ KeyOf(calls[r]) = e.key
               /\ calls[r].resp = e.value
               /\ ~calls[r].resp.isNil]_vars

\* Two identical calls have both missed and both run the handler, with
\* different responses; the first has inserted its response, the second is
\* about to insert the other.
CacheUnderConcurrencyWitness ==
    /\ DOMAIN calls = ConcurrentGoroutines
    /\ \E r \in DOMAIN calls :
          /\ HandlerSucceeded(r)
          /\ KeyOf(calls[r]) \in CacheKeys(cache)
          /\ cache[CacheIndex(cache, KeyOf(calls[r]))].value # calls[r].resp
          /\ Len(cache) = CacheSize

\* What the handler would answer req from the table as it is now.
FreshResponse(req) ==
    [isNil |-> FALSE,
     data |-> ToProto(SelectBuckets(store, AsTime(req.Start), AsTime(req.End),
                                    req.Window, req.Aggregation))]

\* A call that finds its key in the cache returns the cached response with no
\* error, the handler not run and the store not queried.
HitAnsweredFromCache ==
    \A r \in DOMAIN calls :
       (/\ AtStage(r, "CacheInterceptor")
        /\ calls'[r] # calls[r]
        /\ KeyOf(calls[r]) \in CacheKeys(cache))
       => /\ calls'[r].pc = "return"
          /\ calls'[r].depth = CacheDepth - 1
          /\ calls'[r].resp = cache[CacheIndex(cache, KeyOf(calls[r]))].value
          /\ calls'[r].err = NoError
          /\ calls'[r].handlerCalls = 0
          /\ calls'[r].storeCalls = <<>>

\* The entry of key k leaves the cache only when an insert of another key
\* finds the cache full.
EvictedByCapacity(k) ==
    k \notin CacheKeys(cache') =>
        /\ Len(cache) = CacheSize
        /\ Len(cache') = CacheSize
        /\ CacheKeys(cache') \ CacheKeys(cache) # {}

\* C35 as stated: once a response is cached, every later identical call gets
\* that same response, the handler not run and the store not queried, until
\* the entry is evicted by capacity pressure: an insert of the backfill or of
\* a firing leaves the cache as it is, a call that finds its key returns the
\* cached response, and the response cached under a key stays the same for as
\* long as the key is there.
CachedResponseFixed ==
    [][/\ store' # store => cache' = cache
       /\ HitAnsweredFromCache
       /\ \A k \in CacheKeys(cache) :
             /\ EvictedByCapacity(k)
             /\ k \in CacheKeys(cache') =>
                   cache'[CacheIndex(cache', k)].value
                      = cache[CacheIndex(cache, k)].value]_vars

\* C35, amended: cached responses are never invalidated by ingestion. An
\* insert of the backfill or of a firing leaves the cache as it is; every call
\* that finds its key in the cache returns the response cached under it then,
\* with no error, the handler not run and the store not queried, whatever the
\* table holds by then; an entry leaves the cache only by capacity pressure;
\* and the response under a key is replaced only by the response a call of
\* that key got from its own successful run of the handler, a call that had
\* missed before the entry was stored.
CachedNeverInvalidated ==
    [][/\ store' # store => cache' = cache
       /\ HitAnsweredFromCache
       /\ \A k \in CacheKeys(cache) :
             /\ EvictedByCapacity(k)
             /\ (/\ k \in CacheKeys(cache')
                 /\ cache'[CacheIndex(cache', k)].value
                       # cache[CacheIndex(cache, k)].value)
                => \E r \in DOMAIN calls :
                      /\ HandlerSucceeded(r)
                      /\ KeyOf(calls[r]) = k
                      /\ calls'[r] # calls[r]
                      /\ cache'[CacheIndex(cache', k)].value = calls[r].resp]_vars

\* A call has been answered from the cache with a response computed before
\* an insert: the table now gives the handler another answer for its request.
CachedNeverInvalidatedWitness ==
    \E r \in DOMAIN calls :
       /\ calls[r].pc = "return"
       /\ calls[r].depth = CacheDepth - 1
       /\ calls[r].handlerCalls = 0
       /\ calls[r].err = NoError
       /\ KeyOf(calls[r]) \in CacheKeys(cache)
       /\ calls[r].resp = cache[CacheIndex(cache, KeyOf(calls[r]))].value
       /\ calls[r].resp # FreshResponse(calls[r].req)
       /\ store # <<>>

\* The FetchData call f handed a batch to BatchInsertTimeSeriesData.
WriteIssued(f) == f.inserts # <<>>

\* C36: No store access after close. Once handleShutdown has closed the store
\* connection, no FetchData of the process, of a firing or of the backfill,
\* hands a batch to the store's batch insert.
NoStoreAccessAfterClose ==
    [][(proc.repo = "closed" /\ fetches' # fetches)
          => ~WriteIssued(fetches'[Len(fetches')])]_vars

\* The tokens that Rate adds in `ticks` ticks.
Refill(ticks) == (ticks * Rate) \div TicksPerSecond

\* C37: Token-bucket bounds. The limiter's tokens, as stored and as they stand
\* at the current instant, are between 0 and Burst; a call that is admitted
\* takes exactly one token and a call that is rejected none, and is rejected
\* only when none is there; time adds tokens at Rate up to Burst; over any
\* interval the calls admitted are at most Burst plus Rate times its length;
\* and Burst / Rate seconds after the last admitted call the bucket is full.
TokenBucketBounds ==
    /\ [](/\ limiter.tokens \in 0..Burst
          /\ Advance(limiter, clock) \in 0..Burst
          /\ admits.open =>
                admits.count <= Burst + Refill(clock - admits.start)
          /\ clock - limiter.last >= IdleTicks =>
                Advance(limiter, clock) = Burst)
    /\ [][/\ admits'.total = admits.total + 1 =>
               /\ Advance(limiter, clock) >= 1
               /\ Advance(limiter', clock') = Advance(limiter, clock) - 1
          /\ (burst' # burst /\ burst'.lastCode = "ResourceExhausted") =>
               /\ admits'.total = admits.total
               /\ Advance(limiter, clock) = 0
               /\ limiter' = limiter
          /\ clock' # clock =>
               /\ admits'.total = admits.total
               /\ Advance(limiter', clock')
                     = Min(Burst, Advance(limiter, clock) + Refill(clock' - clock))]_vars

\* Burst calls were admitted at the start, and Burst / Rate seconds later
\* Burst more, in an interval of length 0.
TokenBucketBoundsWitness ==
    /\ clock = IdleTicks
    /\ admits.total = 2 * Burst
    /\ admits.open
    /\ admits.start = clock
    /\ admits.count = Burst
    /\ limiter.tokens = 0

LastFetch == fetches'[Len(fetches')]

\* C39: Ingestion is append-only without de-duplication. No fetch deletes or
\* overwrites a row: the table before a fetch is a prefix of the table after
\* it. A fetch that returns no error and was sent records appends the point of
\* every one of them, in their order, whether or not the table holds that
\* point already; a fetch that returns an error leaves the table as it was.
AppendOnlyIngestion ==
    [][/\ Len(store') >= Len(store)
       /\ SubSeq(store', 1, Len(store)) = store
       /\ fetches' # fetches =>
             store' = IF LastFetch.err = NoError /\ WriteIssued(LastFetch)
                      THEN store \o DataPoints(LastFetch.answer.records)
                      ELSE store]_vars

\* The backfill and a firing were sent the same records and both succeeded:
\* the table holds each of the points twice.
AppendOnlyIngestionWitness ==
    \E i, j \in 1..Len(fetches) :
       /\ fetches[i].caller = "bootstrap"
       /\ fetches[j].caller = "collectData"
       /\ fetches[i].err = NoError
       /\ fetches[j].err = NoError
       /\ fetches[i].answer.records = fetches[j].answer.records
       /\ Len(fetches[i].answer.records) = 2
       /\ \A k \in 1..Len(fetches[i].answer.records) :
             Cardinality({n \in 1..Len(store) :
                            store[n] = DataPoints(fetches[i].answer.records)[k]}) >= 2

====
